---- MODULE Spec2Model ----
(***************************************************************************)
(* Verification model of the archinstoo installer core:                    *)
(*   - the unlock / import / mount orchestration (Installer.               *)
(*     mount_ordered_layout and its helpers),                              *)
(*   - the encryption planner (DiskEncryptionMenu.run),                    *)
(*   - kernel command line synthesis (Installer._get_kernel_params),       *)
(*   - bootloader dispatch (Installer.add_bootloader),                     *)
(*   - key file generation (Installer.generate_key_files),                 *)
(*   - the session's readiness waits (Installer.sanity_check).             *)
(*                                                                         *)
(* Paths are sequences of components; components are numbers whose order   *)
(* is the alphabetical order of the names they stand for:                  *)
(*   1 = "boot", 2 = "home", 3 = "var", and below "var": 1 = "log".        *)
(* <<>> is "/".  NoPath stands for Python's None.                          *)
(***************************************************************************)
EXTENDS Integers, Sequences, FiniteSets, TLC

VARIABLES
    \* ---- mount orchestration (installer.py) ----
    device_modifications,  \* disk_config.device_modifications
    lvm_config,            \* disk_config.lvm_config: sequence of volume groups
    disk_encryption,       \* the DiskEncryption plan of the session
    luks_handlers,         \* dict plan element -> Luks2 (its key set)
    log,                   \* device handler calls issued so far, in order
    pc,                    \* position of the session
    \* ---- encryption planner (disk/encryption_menu.py) ----
    menu,                  \* the values of the menu's items (_item_group)
    menu_env,              \* what the menu was constructed with
    plan,                  \* what DiskEncryptionMenu.run returned
    \* ---- kernel command line (installer.py) ----
    kernel_params,         \* Installer._kernel_params, the injected parameters
    zram_enabled,          \* Installer._zram_enabled
    cmdline,               \* the last result of _get_kernel_params
    \* ---- bootloader step (installer.py) ----
    boot_env,              \* what the machine and the target answer
    boot_cfg,              \* the arguments of add_bootloader
    helper_flags,          \* Installer._helper_flags['bootloader']
    \* ---- key files (installer.py) ----
    key_env,               \* what the encryption plan's policy and cryptsetup answer
    \* ---- sanity check (installer.py) ----
    session_args,          \* Arguments: skip_ntp, offline, skip_wkd
    boot_size,             \* MiB of the filesystem mounted at <target>/boot, 0 if none
    services,              \* what timedatectl and systemctl would answer now
    wait,                  \* the locals of _verify_service_stop
    warnings,              \* the warnings logged
    \* ---- other entry points ----
    \* ---- rescue flow (scripts/rescue.py) ----
    unlocked_luks,         \* rescue(): the Luks2 handles of the containers it unlocked
    lock_attempts,         \* the containers whose lock() was called
    lock_failed,           \* the containers whose lock() raised
    rescue_mounted,        \* what is mounted under the mount point: none, root, all
    \* ---- leaving the installation session (Installer.__exit__) ----
    session_flags,         \* Installer._helper_flags, both entries
    session_cfg,           \* what the script was asked to do
    session_step,          \* the position in the body of the with block
    session_completed,     \* the steps that ran to their end
    session_target,        \* what the session has mounted, unlocked and written
    exit_exc,              \* the exception __exit__ is called with
    exit_result,           \* what __exit__ did and returned
    \* ---- Pacman.run (lib/pacman.py) ----
    db_lock,               \* /var/lib/pacman/db.lck exists
    pacman_clock,          \* time.time() - started, in sleeps of 0.25 s
    lock_gone_at,          \* pacman_clock when the lock file went away, -1 before
    pacman_cmd,            \* what became of the command: nothing yet, started, SystemExit
    \* ---- the layout planner (lib/disk/conf.py) ----
    suggest_args,          \* the arguments and menu answers of the planner function called
    suggest_result,        \* what the function returned or raised
    \* ---- validation of the configuration (lib/global_menu.py) ----
    menu_config,           \* what the global menu holds when it is validated
    config_valid,          \* the answer of _is_config_valid and the message of _validate_bootloader
    \* ---- saving and reading back the mirror configuration (lib/args.py, lib/models/mirrors.py) ----
    config_file,           \* mirror_config of the configuration file given with --config
    arch_config,           \* ArchConfig.mirror_config parsed from it
    saved_file,            \* mirror_config of the user_configuration.json written by save()
    read_config,           \* the mirror configuration parsed from the saved file
    \* ---- loader.conf of systemd-boot (Installer._add_systemd_bootloader) ----
    loader_args,           \* the kernels, uki_enabled and the loader.conf found in the ESP
    loader_conf,           \* the lines of loader.conf
    \* ---- guided.perform_installation ----
    guided_cfg,            \* the configuration the guided script installs
    guided_pos,            \* the next statement of perform_installation
    guided_done,           \* the installer methods called so far, in order
    guided_files,          \* Installer._files
    guided_kernel_params,  \* Installer._kernel_params
    initramfs,             \* FILES of mkinitcpio.conf at each run of mkinitcpio
    boot_cmdline,          \* the extra parameters in the command line add_bootloader wrote
    \* ---- initramfs hooks (Installer.minimal_installation) ----
    hooks_plan,            \* the layout minimal_installation prepares the hooks for
    hooks,                 \* Installer._hooks
    \* ---- AUR packages (run_aur_installation) ----
    aur_args,              \* whether a user with elevation exists, and how the build of each package ends
    aur_rule,              \* etc/sudoers.d/99-aur-build in the target
    aur_attempted,         \* the packages grimaur was run for, in order
    aur_exc,               \* the exception leaving the loop
    \* ---- what a step did to the target ----
    effects,               \* packages installed, files written, commands run
    raised                 \* the exception the step ended with, or "none"

planVars == <<device_modifications, lvm_config, disk_encryption>>
mountVars == <<luks_handlers, log>>
menuVars == <<menu, menu_env, plan>>
kernelVars == <<kernel_params, zram_enabled, cmdline>>

bootVars == <<boot_env, boot_cfg, helper_flags>>
runVars == <<effects, raised>>
keyVars == <<key_env>>
sessionVars == <<session_args, boot_size, services, wait, warnings>>

coreVars == <<planVars, mountVars, menuVars, kernelVars, bootVars, keyVars, sessionVars,
              runVars>>

\* the variables of the other entry points
rescueVars == <<unlocked_luks, lock_attempts, lock_failed, rescue_mounted>>
exitVars == <<session_flags, session_cfg, session_step, session_completed, session_target, exit_exc, exit_result>>
pacmanVars == <<db_lock, pacman_clock, lock_gone_at, pacman_cmd>>
suggestVars == <<suggest_args, suggest_result>>
validateVars == <<menu_config, config_valid>>
mirrorVars == <<config_file, arch_config, saved_file, read_config>>
loaderVars == <<loader_args, loader_conf>>
guidedVars == <<guided_cfg, guided_pos, guided_done, guided_files, guided_kernel_params, initramfs, boot_cmdline>>
hooksVars == <<hooks_plan, hooks>>
aurVars == <<aur_args, aur_rule, aur_attempted, aur_exc>>
extVars == <<rescueVars, exitVars, pacmanVars, suggestVars, validateVars, mirrorVars, loaderVars, guidedVars, hooksVars, aurVars>>
offRescue == <<coreVars, exitVars, pacmanVars, suggestVars, validateVars, mirrorVars, loaderVars, guidedVars, hooksVars, aurVars>>
offExit == <<coreVars, rescueVars, pacmanVars, suggestVars, validateVars, mirrorVars, loaderVars, guidedVars, hooksVars, aurVars>>
offPacman == <<coreVars, rescueVars, exitVars, suggestVars, validateVars, mirrorVars, loaderVars, guidedVars, hooksVars, aurVars>>
offSuggest == <<coreVars, rescueVars, exitVars, pacmanVars, validateVars, mirrorVars, loaderVars, guidedVars, hooksVars, aurVars>>
offValidate == <<coreVars, rescueVars, exitVars, pacmanVars, suggestVars, mirrorVars, loaderVars, guidedVars, hooksVars, aurVars>>
offMirror == <<coreVars, rescueVars, exitVars, pacmanVars, suggestVars, validateVars, loaderVars, guidedVars, hooksVars, aurVars>>
offLoader == <<coreVars, rescueVars, exitVars, pacmanVars, suggestVars, validateVars, mirrorVars, guidedVars, hooksVars, aurVars>>
offGuided == <<coreVars, rescueVars, exitVars, pacmanVars, suggestVars, validateVars, mirrorVars, loaderVars, hooksVars, aurVars>>
offHooks == <<coreVars, rescueVars, exitVars, pacmanVars, suggestVars, validateVars, mirrorVars, loaderVars, guidedVars, aurVars>>
offAur == <<coreVars, rescueVars, exitVars, pacmanVars, suggestVars, validateVars, mirrorVars, loaderVars, guidedVars, hooksVars>>

\* the variables each part of the installer leaves alone
offMount == <<planVars, menuVars, kernelVars, bootVars, keyVars, sessionVars, runVars, extVars>>
offMenu == <<planVars, mountVars, kernelVars, bootVars, keyVars, sessionVars, runVars, extVars>>
offKernel == <<planVars, mountVars, menuVars, bootVars, keyVars, sessionVars, runVars, extVars>>
offBoot == <<planVars, mountVars, menuVars, kernelVars, keyVars, sessionVars, extVars>>
offKey == <<planVars, mountVars, menuVars, kernelVars, bootVars, keyVars, sessionVars, extVars>>
offSession == <<planVars, mountVars, menuVars, kernelVars, bootVars, keyVars, runVars, extVars>>

vars == <<coreVars, extVars, pc>>

----------------------------------------------------------------------------
\* Bounds of the model

MaxDevices == 2
MaxParts == 2
MaxVols == 2
MaxSelect == 2
MaxExtraParams == 2
MaxLuks == 3

\* the largest device the planner is tried with, in GiB
MaxTotalGiB == 640

\* the mirror regions and custom servers of a configuration file
MaxRegions == 3
MaxServers == 2

\* the lines of a loader.conf found in the ESP
MaxLines == 3

\* suggest_lvm_layout is tried with every capacity of a multiple of this many GiB
LvmCapacityStep == 16

\* the AUR packages of a configuration
MaxPackages == 3

\* the constants of the sanity check
MinBootMiB == 200
NtpNotifyAfter == 5
ReflectorPolls == 60

----------------------------------------------------------------------------
\* Paths

Root == <<>>
NoPath == <<0>>
Boot == <<1>>
Home == <<2>>
VarLog == <<3, 1>>

\* pathlib: PurePath.__lt__ compares the component lists lexicographically
RECURSIVE PathLess(_, _)
PathLess(a, b) ==
    IF b = <<>> THEN FALSE
    ELSE IF a = <<>> THEN TRUE
    ELSE IF Head(a) < Head(b) THEN TRUE
    ELSE IF Head(a) > Head(b) THEN FALSE
    ELSE PathLess(Tail(a), Tail(b))

\* a is a proper ancestor directory of b
IsAncestor(a, b) ==
    /\ Len(a) < Len(b)
    /\ SubSeq(b, 1, Len(a)) = a

----------------------------------------------------------------------------
\* Plan elements

Front(s) == SubSeq(s, 1, Len(s) - 1)
Last(s) == s[Len(s)]

Subvol(n, mp) == [name |-> n, mountpoint |-> mp]

PartRec(mp, fs, subvols, path, esp, ispv) ==
    [mountpoint |-> mp, fs_type |-> fs, btrfs_subvols |-> subvols,
     dev_path |-> path, efi |-> esp, pv |-> ispv]

DefaultSubvols == << Subvol("@home", Home), Subvol("@", Root), Subvol("@snap", NoPath) >>

PartKinds ==
    { PartRec(Root, "ext4", <<>>, TRUE, FALSE, FALSE),
      PartRec(Boot, "fat32", <<>>, TRUE, TRUE, FALSE),
      PartRec(VarLog, "ext4", <<>>, TRUE, FALSE, FALSE),
      PartRec(NoPath, "btrfs", DefaultSubvols, TRUE, FALSE, FALSE),
      PartRec(NoPath, "swap", <<>>, TRUE, FALSE, FALSE),
      PartRec(NoPath, "none", <<>>, TRUE, FALSE, TRUE),
      PartRec(Home, "ext4", <<>>, FALSE, FALSE, FALSE) }

VolRec(mp, fs, subvols) ==
    [mountpoint |-> mp, fs_type |-> fs, btrfs_subvols |-> subvols, dev_path |-> TRUE]

VolKinds ==
    { VolRec(Root, "ext4", <<>>),
      VolRec(Home, "ext4", <<>>),
      VolRec(NoPath, "btrfs", DefaultSubvols) }

PartId(d, i) == [k |-> "part", a |-> d, b |-> i]
VolId(g, j) == [k |-> "vol", a |-> g, b |-> j]

SeqsUpTo(S, n) == UNION { [1..m -> S] : m \in 1..n }

PartIds(devs) == UNION { { PartId(d, i) : i \in DOMAIN devs[d] } : d \in DOMAIN devs }
VolIds(lvm) == UNION { { VolId(g, j) : j \in DOMAIN lvm[g] } : g \in DOMAIN lvm }

PartOf(id) == device_modifications[id.a][id.b]
VolOf(id) == lvm_config[id.a][id.b]

\* SubvolumeModification.is_root
SubvolIsRoot(sv) == sv.mountpoint = Root

\* PartitionModification.is_root
PartIsRoot(p) ==
    IF p.mountpoint # NoPath THEN p.mountpoint = Root
    ELSE \E k \in DOMAIN p.btrfs_subvols : SubvolIsRoot(p.btrfs_subvols[k])

\* PartitionModification.is_swap
PartIsSwap(p) == p.fs_type = "swap"

\* LvmConfiguration.get_all_pvs
GetAllPvs == { id \in PartIds(device_modifications) : PartOf(id).pv }

----------------------------------------------------------------------------
\* Device handler calls

Ev(o, id, via, tgt) == [op |-> o, el |-> id, src |-> via, target |-> tgt]

\* sorted(..., key=...): Python's sort is stable; kf maps an element to its key
InsertUnsorted(kf, s, x) == Append(s, x)

Insert(kf, s, x) ==
    LET after == { n \in 1..Len(s) : ~PathLess(kf[x], kf[s[n]]) }
        at == IF after = {} THEN 0 ELSE CHOOSE n \in after : \A m \in after : m <= n
    IN SubSeq(s, 1, at) \o <<x>> \o SubSeq(s, at + 1, Len(s))

RECURSIVE SortIds(_, _)
SortIds(kf, s) ==
    IF s = <<>> THEN <<>>
    ELSE Insert(kf, SortIds(kf, Front(s)), Last(s))

RECURSIVE Flatten(_)
Flatten(ss) == IF ss = <<>> THEN <<>> ELSE Head(ss) \o Flatten(Tail(ss))

\* Installer._mount_btrfs_subvol
MountBtrfsSubvol(id, via, subvolumes) ==
    LET idx == [n \in 1..Len(subvolumes) |-> n]
        keep(n) == subvolumes[n].mountpoint # NoPath
        with_mp == SelectSeq(idx, keep)
        kf == [n \in 1..Len(subvolumes) |-> subvolumes[n].mountpoint]
        sorted == SortIds(kf, with_mp)
    IN [n \in 1..Len(sorted) |-> Ev("mount", id, via, subvolumes[sorted[n]].mountpoint)]

HasSubvolMountpoint(subvolumes) ==
    \E n \in DOMAIN subvolumes : subvolumes[n].mountpoint # NoPath

\* Installer._mount_partition
MountPartition(id) ==
    LET p == PartOf(id) IN
    IF ~p.dev_path THEN <<>>
    ELSE IF p.mountpoint # NoPath THEN << Ev("mount", id, "dev", p.mountpoint) >>
    ELSE IF p.fs_type = "btrfs" THEN
        IF HasSubvolMountpoint(p.btrfs_subvols)
        THEN MountBtrfsSubvol(id, "dev", p.btrfs_subvols) ELSE <<>>
    ELSE IF PartIsSwap(p) THEN << Ev("swapon", id, "dev", NoPath) >>
    ELSE <<>>

\* Installer._mount_luks_partition (a Luks2 returned by unlock_luks2_dev has its mapper_dev)
MountLuksPartition(id) ==
    LET p == PartOf(id) IN
    IF p.fs_type = "btrfs" /\ p.btrfs_subvols # <<>> THEN
        IF HasSubvolMountpoint(p.btrfs_subvols)
        THEN MountBtrfsSubvol(id, "mapper", p.btrfs_subvols) ELSE <<>>
    ELSE IF PartIsSwap(p) THEN << Ev("swapon", id, "mapper", NoPath) >>
    ELSE IF p.mountpoint # NoPath THEN << Ev("mount", id, "mapper", p.mountpoint) >>
    ELSE <<>>

\* Installer._mount_lvm_vol
MountLvmVol(id) ==
    LET v == VolOf(id) IN
    (IF v.fs_type # "btrfs" /\ v.mountpoint # NoPath /\ v.dev_path
     THEN << Ev("mount", id, "dev", v.mountpoint) >> ELSE <<>>)
    \o
    (IF v.fs_type = "btrfs" /\ v.dev_path /\ HasSubvolMountpoint(v.btrfs_subvols)
     THEN MountBtrfsSubvol(id, "dev", v.btrfs_subvols) ELSE <<>>)

\* Installer._mount_luks_volume
MountLuksVolume(id) ==
    LET v == VolOf(id) IN
    (IF v.fs_type # "btrfs" /\ v.mountpoint # NoPath
     THEN << Ev("mount", id, "mapper", v.mountpoint) >> ELSE <<>>)
    \o
    (IF v.fs_type = "btrfs" /\ HasSubvolMountpoint(v.btrfs_subvols)
     THEN MountBtrfsSubvol(id, "mapper", v.btrfs_subvols) ELSE <<>>)

\* key=lambda x: x.mountpoint or Path('/')
SortKey(el) == IF el.mountpoint = NoPath THEN Root ELSE el.mountpoint
PartKey == [id \in PartIds(device_modifications) |-> SortKey(PartOf(id))]
VolKey == [id \in VolIds(lvm_config) |-> SortKey(VolOf(id))]

\* the device list with the first device holding a root partition moved to the front
DeviceHasRoot(d) == \E i \in DOMAIN device_modifications[d] : PartIsRoot(device_modifications[d][i])

SortedDeviceModsUnmoved == [d \in DOMAIN device_modifications |-> d]

SortedDeviceMods ==
    LET order == [d \in DOMAIN device_modifications |-> d]
        roots == { d \in DOMAIN device_modifications : DeviceHasRoot(d) }
    IN IF roots = {} THEN order
       ELSE LET r == CHOOSE d \in roots : \A e \in roots : d <= e
                 other(d) == d # r
            IN <<r>> \o SelectSeq(order, other)

\* the partitions of one device in the order they are mounted
SortedPartMods(d) ==
    LET ids == [i \in DOMAIN device_modifications[d] |-> PartId(d, i)]
        pvs == IF lvm_config # <<>> THEN GetAllPvs ELSE {}
        keep(id) == id \notin pvs
        not_pv == SelectSeq(ids, keep)
    IN SortIds(PartKey, not_pv)

\* Installer._mount_partition_layout
MountPartitionLayout(handlers) ==
    LET order == SortedDeviceMods
        one(id) == IF id \in handlers THEN MountLuksPartition(id) ELSE MountPartition(id)
        dev(d) == LET s == SortedPartMods(d)
                  IN Flatten([n \in 1..Len(s) |-> one(s[n])])
    IN Flatten([n \in 1..Len(order) |-> dev(order[n])])

\* Installer._mount_lvm_layout
MountLvmLayout(handlers) ==
    LET one(id) == IF id \in handlers THEN MountLuksVolume(id) ELSE MountLvmVol(id)
        vg(g) == LET ids == [j \in DOMAIN lvm_config[g] |-> VolId(g, j)]
                     s == SortIds(VolKey, ids)
                 IN Flatten([n \in 1..Len(s) |-> one(s[n])])
    IN Flatten([g \in 1..Len(lvm_config) |-> vg(g)])

\* Installer._prepare_luks_partitions / _prepare_luks_lvm: only elements with a
\* mapper name (derived from the device path) and a device path are unlocked
Unlockable(id) == IF id.k = "part" THEN PartOf(id).dev_path ELSE VolOf(id).dev_path

PrepareLuks(elements) ==
    LET ok(id) == Unlockable(id)
        sel == SelectSeq(elements, ok)
    IN [n \in 1..Len(sel) |-> Ev("unlock", sel[n], "dev", NoPath)]

Handlers(elements) == { elements[n] : n \in { m \in DOMAIN elements : Unlockable(elements[m]) } }

\* Installer._import_lvm
ImportVg(g) ==
    << Ev("import_vg", VolId(g, 0), "dev", NoPath) >>
    \o [j \in 1..Len(lvm_config[g]) |-> Ev("vol_change", VolId(g, j), "dev", NoPath)]

ImportLvm == Flatten([g \in 1..Len(lvm_config) |-> ImportVg(g)])

----------------------------------------------------------------------------
\* The plans a session can be started with

DistinctSeqs(S, n) ==
    { s \in SeqsUpTo(S, n) : \A i, j \in DOMAIN s : i # j => s[i] # s[j] }

DeviceLists == SeqsUpTo(DistinctSeqs(PartKinds, MaxParts), MaxDevices)

\* a volume group needs a physical volume
LvmConfigs(devs) ==
    {<<>>} \cup
    IF \E id \in PartIds(devs) : devs[id.a][id.b].pv
    THEN { <<vg>> : vg \in DistinctSeqs(VolKinds, MaxVols) }
    ELSE {}

\* select_partitions_to_encrypt never offers the EFI system partition
RECURSIVE SetToSeq(_)
SetToSeq(S) ==
    IF S = {} THEN <<>>
    ELSE LET x == CHOOSE y \in S : \A z \in S :
                     y.a < z.a \/ (y.a = z.a /\ y.b <= z.b)
         IN <<x>> \o SetToSeq(S \ {x})

Encryptable(devs) == SetToSeq({ id \in PartIds(devs) : ~devs[id.a][id.b].efi })

Plan(type, parts, vols, auto) ==
    [encryption_type |-> type, partitions |-> parts, lvm_volumes |-> vols,
     auto_unlock_root |-> auto]

FirstOf(s) == IF s = <<>> THEN <<>> ELSE <<Head(s)>>

EncryptionPlans(devs, lvm) ==
    LET parts == Encryptable(devs)
        vols == SetToSeq(VolIds(lvm))
    IN { Plan("NoEncryption", <<>>, <<>>, FALSE) }
       \cup { Plan("Luks", ps, <<>>, FALSE) : ps \in {parts, FirstOf(parts)} }
       \cup (IF lvm = <<>> THEN {}
             ELSE { Plan("LvmOnLuks", ps, <<>>, FALSE) : ps \in {parts, FirstOf(parts)} }
                  \cup { Plan("LuksOnLvm", <<>>, vs, FALSE) : vs \in {vols, FirstOf(vols)} })

NoPlan == Plan("NoEncryption", <<>>, <<>>, FALSE)

\* DiskEncryptionMenu.run returning None
NoneReturned ==
    [some |-> FALSE, encryption_type |-> "None", partitions |-> {}, lvm_volumes |-> {},
     auto_unlock_root |-> FALSE]

\* the parts of the state a specification does not use keep these values
PlanIdle ==
    /\ device_modifications = <<>>
    /\ lvm_config = <<>>
    /\ disk_encryption = NoPlan

MountIdle ==
    /\ luks_handlers = {}
    /\ log = <<>>

MenuIdle ==
    /\ menu = NoPlan
    /\ menu_env = [lvm_config |-> FALSE, allow_auto_unlock |-> FALSE]
    /\ plan = NoneReturned

NoCmdline == [call |-> "none", raised |-> FALSE, params |-> <<>>]

KernelIdle ==
    /\ kernel_params = <<>>
    /\ zram_enabled = FALSE
    /\ cmdline = NoCmdline

NoBootEnv ==
    [has_uefi |-> FALSE, efi |-> "none", boot |-> "none", root |-> FALSE,
     splash |-> FALSE, encrypted |-> FALSE, commands_ok |-> TRUE, mkconfig_ok |-> TRUE, params_ok |-> TRUE]
NoBootCfg == [bootloader |-> "NO_BOOTLOADER", uki_enabled |-> FALSE, removable |-> FALSE]

BootIdle ==
    /\ boot_env = NoBootEnv
    /\ boot_cfg = NoBootCfg
    /\ helper_flags = "None"

RunIdle ==
    /\ effects = <<>>
    /\ raised = "none"

KeyIdle == key_env = [policy |-> {}, cryptsetup_ok |-> TRUE]

\* tick is the parity of the seconds slept: every time.sleep(1) flips it
NoWait == [elapsed |-> 0, notified |-> FALSE, polls |-> 0, seen |-> "", tick |-> FALSE]
Pending == [ntp_synchronized |-> FALSE, reflector |-> "running",
            keyring_timer |-> FALSE, keyring |-> "running"]

SessionIdle ==
    /\ session_args = [skip_ntp |-> FALSE, offline |-> FALSE, skip_wkd |-> FALSE]
    /\ boot_size = 0
    /\ services = Pending
    /\ wait = NoWait
    /\ warnings = {}

CoreIdle ==
    /\ PlanIdle /\ MountIdle /\ MenuIdle /\ KernelIdle /\ BootIdle /\ KeyIdle
    /\ SessionIdle /\ RunIdle

\* the other entry points before they run
RescueIdle ==
    /\ unlocked_luks = <<>>
    /\ lock_attempts = {}
    /\ lock_failed = {}
    /\ rescue_mounted = "none"

ExitIdle ==
    /\ session_flags = <<>>
    /\ session_cfg = <<>>
    /\ session_step = 0
    /\ session_completed = {}
    /\ session_target = <<>>
    /\ exit_exc = ""
    /\ exit_result = <<>>

PacmanIdle ==
    /\ db_lock = FALSE
    /\ pacman_clock = 0
    /\ lock_gone_at = -1
    /\ pacman_cmd = ""

SuggestIdle ==
    /\ suggest_args = <<>>
    /\ suggest_result = <<>>

ValidateIdle ==
    /\ menu_config = <<>>
    /\ config_valid = <<>>

MirrorIdle ==
    /\ config_file = <<>>
    /\ arch_config = <<>>
    /\ saved_file = <<>>
    /\ read_config = <<>>

LoaderIdle ==
    /\ loader_args = <<>>
    /\ loader_conf = <<>>

GuidedIdle ==
    /\ guided_cfg = <<>>
    /\ guided_pos = 0
    /\ guided_done = <<>>
    /\ guided_files = <<>>
    /\ guided_kernel_params = <<>>
    /\ initramfs = <<>>
    /\ boot_cmdline = <<>>

HooksIdle ==
    /\ hooks_plan = <<>>
    /\ hooks = <<>>

AurIdle ==
    /\ aur_args = <<>>
    /\ aur_rule = "absent"
    /\ aur_attempted = <<>>
    /\ aur_exc = "none"

ExtIdle == RescueIdle /\ ExitIdle /\ PacmanIdle /\ SuggestIdle /\ ValidateIdle /\ MirrorIdle /\ LoaderIdle /\ GuidedIdle /\ HooksIdle /\ AurIdle

restRescueIdle == CoreIdle /\ ExitIdle /\ PacmanIdle /\ SuggestIdle /\ ValidateIdle /\ MirrorIdle /\ LoaderIdle /\ GuidedIdle /\ HooksIdle /\ AurIdle
restExitIdle == CoreIdle /\ RescueIdle /\ PacmanIdle /\ SuggestIdle /\ ValidateIdle /\ MirrorIdle /\ LoaderIdle /\ GuidedIdle /\ HooksIdle /\ AurIdle
restPacmanIdle == CoreIdle /\ RescueIdle /\ ExitIdle /\ SuggestIdle /\ ValidateIdle /\ MirrorIdle /\ LoaderIdle /\ GuidedIdle /\ HooksIdle /\ AurIdle
restSuggestIdle == CoreIdle /\ RescueIdle /\ ExitIdle /\ PacmanIdle /\ ValidateIdle /\ MirrorIdle /\ LoaderIdle /\ GuidedIdle /\ HooksIdle /\ AurIdle
restValidateIdle == CoreIdle /\ RescueIdle /\ ExitIdle /\ PacmanIdle /\ SuggestIdle /\ MirrorIdle /\ LoaderIdle /\ GuidedIdle /\ HooksIdle /\ AurIdle
restMirrorIdle == CoreIdle /\ RescueIdle /\ ExitIdle /\ PacmanIdle /\ SuggestIdle /\ ValidateIdle /\ LoaderIdle /\ GuidedIdle /\ HooksIdle /\ AurIdle
restLoaderIdle == CoreIdle /\ RescueIdle /\ ExitIdle /\ PacmanIdle /\ SuggestIdle /\ ValidateIdle /\ MirrorIdle /\ GuidedIdle /\ HooksIdle /\ AurIdle
restGuidedIdle == CoreIdle /\ RescueIdle /\ ExitIdle /\ PacmanIdle /\ SuggestIdle /\ ValidateIdle /\ MirrorIdle /\ LoaderIdle /\ HooksIdle /\ AurIdle
restHooksIdle == CoreIdle /\ RescueIdle /\ ExitIdle /\ PacmanIdle /\ SuggestIdle /\ ValidateIdle /\ MirrorIdle /\ LoaderIdle /\ GuidedIdle /\ AurIdle
restAurIdle == CoreIdle /\ RescueIdle /\ ExitIdle /\ PacmanIdle /\ SuggestIdle /\ ValidateIdle /\ MirrorIdle /\ LoaderIdle /\ GuidedIdle /\ HooksIdle

\* the mount sequence starts from a plan
MountInit ==
    /\ ExtIdle
    /\ MenuIdle /\ KernelIdle /\ BootIdle /\ KeyIdle /\ SessionIdle /\ RunIdle
    /\ device_modifications \in DeviceLists
    /\ lvm_config \in LvmConfigs(device_modifications)
    /\ disk_encryption \in EncryptionPlans(device_modifications, lvm_config)
    /\ luks_handlers = {}
    /\ log = <<>>
    /\ pc = "start"

----------------------------------------------------------------------------
\* Installer.mount_ordered_layout, one action per arm of its match and one
\* for the partition layout that follows every arm.  A DiskError raised by a
\* device handler call ends the session with a prefix of the calls below.

MountNoEncryption ==
    /\ pc = "start"
    /\ disk_encryption.encryption_type = "NoEncryption"
    /\ log' = log \o ImportLvm \o MountLvmLayout({})
    /\ pc' = "partitions"
    /\ UNCHANGED <<offMount, luks_handlers>>

MountLuks ==
    /\ pc = "start"
    /\ disk_encryption.encryption_type = "Luks"
    /\ luks_handlers' = Handlers(disk_encryption.partitions)
    /\ log' = log \o PrepareLuks(disk_encryption.partitions)
    /\ pc' = "partitions"
    /\ UNCHANGED offMount

\* the volume groups imported before the partitions are unlocked
MountLvmOnLuksImportFirst ==
    /\ pc = "start"
    /\ disk_encryption.encryption_type = "LvmOnLuks"
    /\ luks_handlers' = Handlers(disk_encryption.partitions)
    /\ log' = log \o ImportLvm \o PrepareLuks(disk_encryption.partitions)
                  \o MountLvmLayout(luks_handlers')
    /\ pc' = "partitions"
    /\ UNCHANGED offMount

MountLvmOnLuks ==
    /\ pc = "start"
    /\ disk_encryption.encryption_type = "LvmOnLuks"
    /\ luks_handlers' = Handlers(disk_encryption.partitions)
    /\ log' = log \o PrepareLuks(disk_encryption.partitions) \o ImportLvm
                  \o MountLvmLayout(luks_handlers')
    /\ pc' = "partitions"
    /\ UNCHANGED offMount

MountLuksOnLvm ==
    /\ pc = "start"
    /\ disk_encryption.encryption_type = "LuksOnLvm"
    /\ luks_handlers' = Handlers(disk_encryption.lvm_volumes)
    /\ log' = log \o ImportLvm \o PrepareLuks(disk_encryption.lvm_volumes)
                  \o MountLvmLayout(luks_handlers')
    /\ pc' = "partitions"
    /\ UNCHANGED offMount

MountPartitions ==
    /\ pc = "partitions"
    /\ log' = log \o MountPartitionLayout(luks_handlers)
    /\ pc' = "mounted"
    /\ UNCHANGED <<offMount, luks_handlers>>

\* the device handler calls the next step of mount_ordered_layout issues
PendingCalls ==
    IF pc = "partitions" THEN MountPartitionLayout(luks_handlers)
    ELSE LET t == disk_encryption.encryption_type
             parts == disk_encryption.partitions
             vols == disk_encryption.lvm_volumes
         IN CASE t = "NoEncryption" -> ImportLvm \o MountLvmLayout({})
              [] t = "Luks" -> PrepareLuks(parts)
              [] t = "LvmOnLuks" ->
                    PrepareLuks(parts) \o ImportLvm \o MountLvmLayout(Handlers(parts))
              [] t = "LuksOnLvm" ->
                    ImportLvm \o PrepareLuks(vols) \o MountLvmLayout(Handlers(vols))

\* a device handler call raises DiskError: the calls before it were made, the
\* exception leaves mount_ordered_layout and the session
MountRaises ==
    /\ pc \in {"start", "partitions"}
    /\ \E n \in 1..Len(PendingCalls) :
          log' = log \o SubSeq(PendingCalls, 1, n - 1)
    /\ pc' = "failed"
    /\ UNCHANGED <<offMount, luks_handlers>>

MountNext ==
    \/ MountNoEncryption
    \/ MountLuks
    \/ MountLvmOnLuks
    \/ MountLuksOnLvm
    \/ MountPartitions
    \/ MountRaises

SpecMount == MountInit /\ [][MountNext]_vars

----------------------------------------------------------------------------
\* The encryption planner: DiskEncryptionMenu.  An item is offered while its
\* dependencies hold and keeps its value when they stop holding.  A selection
\* of partitions or volumes is the set of the selected elements' numbers.

Selections == SUBSET (1..MaxSelect)

\* DiskEncryptionMenu._check_dep_enc_type
CheckDepEncType == menu.encryption_type \notin {"None", "NoEncryption"}

\* DiskEncryptionMenu._check_dep_partitions
CheckDepPartitions == menu.encryption_type \in {"Luks", "LvmOnLuks"}

\* DiskEncryptionMenu._check_dep_lvm_vols
CheckDepLvmVols == menu.encryption_type = "LuksOnLvm"

\* DiskEncryptionMenu._check_dep_auto_unlock
CheckDepAutoUnlock == menu_env.allow_auto_unlock /\ CheckDepEncType

\* DiskEncryptionMenu.__init__ without preset: the items hold DiskEncryption()
MenuInit ==
    /\ ExtIdle
    /\ PlanIdle /\ MountIdle /\ KernelIdle /\ BootIdle /\ KeyIdle /\ SessionIdle /\ RunIdle
    /\ menu = [encryption_type |-> "NoEncryption", encryption_password |-> FALSE,
               partitions |-> {}, lvm_volumes |-> {}, auto_unlock_root |-> FALSE]
    /\ menu_env \in [lvm_config : BOOLEAN, allow_auto_unlock : BOOLEAN]
    /\ plan = NoneReturned
    /\ pc = "menu"

\* select_encryption_type: a selection among the offered types, or Reset
SelectEncryptionType ==
    /\ pc = "menu"
    /\ \E t \in (IF menu_env.lvm_config THEN {"LvmOnLuks", "LuksOnLvm"} ELSE {"Luks"})
                \cup {"None"} :
          menu' = [menu EXCEPT !.encryption_type = t]
    /\ UNCHANGED <<offMenu, menu_env, plan, pc>>

\* select_encrypted_password: a password, or none
SelectEncryptedPassword ==
    /\ pc = "menu"
    /\ CheckDepEncType
    /\ \E given \in BOOLEAN : menu' = [menu EXCEPT !.encryption_password = given]
    /\ UNCHANGED <<offMenu, menu_env, plan, pc>>

\* select_partitions_to_encrypt
SelectPartitionsToEncrypt ==
    /\ pc = "menu"
    /\ CheckDepPartitions
    /\ \E sel \in Selections : menu' = [menu EXCEPT !.partitions = sel]
    /\ UNCHANGED <<offMenu, menu_env, plan, pc>>

\* DiskEncryptionMenu._select_lvm_vols
SelectLvmVols ==
    /\ pc = "menu"
    /\ CheckDepLvmVols
    /\ \E sel \in Selections :
          menu' = [menu EXCEPT !.lvm_volumes = IF menu_env.lvm_config THEN sel ELSE {}]
    /\ UNCHANGED <<offMenu, menu_env, plan, pc>>

\* DiskEncryptionMenu._select_auto_unlock_root
SelectAutoUnlockRoot ==
    /\ pc = "menu"
    /\ CheckDepAutoUnlock
    /\ \E yes \in BOOLEAN : menu' = [menu EXCEPT !.auto_unlock_root = yes]
    /\ UNCHANGED <<offMenu, menu_env, plan, pc>>

\* DiskEncryptionMenu.run, after the menu was left: the plan or None
RunResult ==
    LET enc_type == menu.encryption_type
        enc_partitions == IF enc_type = "LuksOnLvm" THEN {} ELSE menu.partitions
        enc_lvm_vols == IF enc_type \in {"Luks", "LvmOnLuks"} /\ menu.partitions # {}
                        THEN {} ELSE menu.lvm_volumes
    IN IF enc_type = "None" THEN NoneReturned
       ELSE IF /\ enc_type # "NoEncryption"
               /\ menu.encryption_password
               /\ (enc_partitions # {} \/ enc_lvm_vols # {})
            THEN [some |-> TRUE, encryption_type |-> enc_type,
                  partitions |-> enc_partitions, lvm_volumes |-> enc_lvm_vols,
                  auto_unlock_root |-> menu.auto_unlock_root]
            ELSE NoneReturned

MenuRun ==
    /\ pc = "menu"
    /\ plan' = RunResult
    /\ pc' = "returned"
    /\ UNCHANGED <<offMenu, menu, menu_env>>

MenuNext ==
    \/ SelectEncryptionType
    \/ SelectEncryptedPassword
    \/ SelectPartitionsToEncrypt
    \/ SelectLvmVols
    \/ SelectAutoUnlockRoot
    \/ MenuRun

SpecMenu == MenuInit /\ [][MenuNext]_vars

----------------------------------------------------------------------------
\* Kernel command line synthesis.  A parameter is a record: its name, its
\* value as far as the code fixes it, and the plan element whose identifier
\* (UUID, PARTUUID, device path) completes it.

NoEl == [k |-> "none", a |-> 0, b |-> 0]
Param(n, v, id) == [name |-> n, val |-> v, of |-> id]

Range(s) == { s[n] : n \in DOMAIN s }

\* LvmVolume.is_root
VolIsRoot(v) == PartIsRoot(v)

\* LvmConfiguration.get_root_volume
GetRootVolume ==
    LET roots == { id \in VolIds(lvm_config) : VolIsRoot(VolOf(id)) }
    IN IF roots = {} THEN NoEl ELSE Head(SetToSeq(roots))

\* DeviceModification.get_root_partition, for the first device that has one
GetRootPartition ==
    LET roots == { id \in PartIds(device_modifications) : PartIsRoot(PartOf(id)) }
    IN IF roots = {} THEN NoEl ELSE Head(SetToSeq(roots))

\* Installer._get_root
GetRoot == IF lvm_config # <<>> THEN GetRootVolume ELSE GetRootPartition

\* LvmVolume.safe_dev_path as the value of root=
LvmDevPath == "/dev/mapper/<vg>-<lv>"

\* Installer._get_kernel_params_partition
GetKernelParamsPartitionPartuuidAlways(root_partition, id_root, partuuid) ==
    IF id_root THEN << Param("root", "PARTUUID", root_partition) >> ELSE <<>>

GetKernelParamsPartition(root_partition, id_root, partuuid) ==
    IF root_partition \in Range(disk_encryption.partitions)
    THEN << Param("rd.luks.name", "root", root_partition) >>
         \o (IF id_root THEN << Param("root", "/dev/mapper/root", NoEl) >> ELSE <<>>)
    ELSE IF id_root
    THEN (IF partuuid THEN << Param("root", "PARTUUID", root_partition) >>
          ELSE << Param("root", "UUID", root_partition) >>)
    ELSE <<>>

\* Installer._get_kernel_params_lvm; env holds what the lookups answer:
\* vg_name (the volume knows its group), pv (the partition under the volume's
\* physical segment, NoEl when lvm_pvseg_info finds none), luks_uuid (lsblk
\* finds the UUID of the LUKS superblock)
LvmLookupFails(env) ==
    CASE disk_encryption.encryption_type = "LvmOnLuks" ->
            ~env.vg_name \/ env.pv = NoEl \/ ~env.luks_uuid
      [] disk_encryption.encryption_type = "LuksOnLvm" -> ~env.luks_uuid
      [] OTHER -> FALSE

GetKernelParamsLvm(lvm, env) ==
    CASE disk_encryption.encryption_type = "LvmOnLuks" ->
            << Param("rd.luks.name", "cryptlvm", env.pv), Param("root", LvmDevPath, lvm) >>
      [] disk_encryption.encryption_type = "LuksOnLvm" ->
            << Param("rd.luks.name", "root", lvm), Param("root", "/dev/mapper/root", NoEl) >>
      [] disk_encryption.encryption_type = "NoEncryption" ->
            << Param("root", LvmDevPath, lvm) >>
      [] OTHER -> <<>>

RootElem(root) == IF root.k = "vol" THEN VolOf(root) ELSE PartOf(root)

\* rootflags for the first subvolume, whether it is the root or not
RootFlagsFirstSubvol(root) ==
    LET subvols == RootElem(root).btrfs_subvols
    IN IF subvols = <<>> THEN <<>> ELSE << Param("rootflags", subvols[1].name, NoEl) >>

\* Installer._get_kernel_params (the part after the root parameters)
RootFlags(root) ==
    LET subvols == RootElem(root).btrfs_subvols
        roots == { n \in DOMAIN subvols : SubvolIsRoot(subvols[n]) }
    IN IF roots = {} THEN <<>>
       ELSE LET n == CHOOSE m \in roots : \A o \in roots : m <= o
            IN << Param("rootflags", subvols[n].name, NoEl) >>

GetKernelParams(root, id_root, partuuid, env) ==
    (IF root.k = "vol" THEN GetKernelParamsLvm(root, env)
     ELSE GetKernelParamsPartition(root, id_root, partuuid))
    \o (IF zram_enabled THEN << Param("zswap.enabled", "0", NoEl) >> ELSE <<>>)
    \o (IF id_root THEN RootFlags(root) \o << Param("rw", "", NoEl) >> ELSE <<>>)
    \o << Param("rootfstype", RootElem(root).fs_type, NoEl) >>
    \o kernel_params

\* the two ways the bootloader steps call _get_kernel_params: with its
\* defaults (systemd-boot, Limine, EFISTUB, rEFInd, UKI), and Grub's call
CallSites ==
    { [name |-> "default", id_root |-> TRUE, partuuid |-> TRUE],
      [name |-> "grub", id_root |-> FALSE, partuuid |-> FALSE] }

LookupAnswers ==
    [vg_name : BOOLEAN, pv : GetAllPvs \cup {NoEl}, luks_uuid : BOOLEAN]

ExtraParams == { Param("lsm", "apparmor", NoEl), Param("quiet", "", NoEl) }

KernelInit ==
    /\ ExtIdle
    /\ MountIdle /\ MenuIdle /\ BootIdle /\ KeyIdle /\ SessionIdle /\ RunIdle
    /\ device_modifications \in SeqsUpTo(DistinctSeqs(PartKinds, MaxParts), 1)
    /\ lvm_config \in LvmConfigs(device_modifications)
    /\ disk_encryption \in EncryptionPlans(device_modifications, lvm_config)
    /\ kernel_params = <<>>
    /\ zram_enabled = FALSE
    /\ cmdline = NoCmdline
    /\ pc = "installed"

\* Installer.add_kernel_param
AddKernelParam ==
    /\ pc = "installed"
    /\ Len(kernel_params) < MaxExtraParams
    /\ \E x \in ExtraParams : kernel_params' = Append(kernel_params, x)
    /\ UNCHANGED <<offKernel, zram_enabled, cmdline, pc>>

\* Installer.setup_swap('zram')
SetupSwap ==
    /\ pc = "installed"
    /\ zram_enabled' = TRUE
    /\ UNCHANGED <<offKernel, kernel_params, cmdline, pc>>

\* a bootloader step synthesizes the command line for the root element
SynthesizeCmdline ==
    /\ pc = "installed"
    /\ GetRoot # NoEl
    /\ \E call \in CallSites, env \in LookupAnswers :
          /\ ~(GetRoot.k = "vol" /\ LvmLookupFails(env))
          /\ cmdline' = [call |-> call.name, raised |-> FALSE,
                         params |-> GetKernelParams(GetRoot, call.id_root, call.partuuid, env)]
    /\ pc' = "cmdline"
    /\ UNCHANGED <<offKernel, kernel_params, zram_enabled>>

\* _get_kernel_params_lvm raises ValueError when a lookup fails
SynthesizeRaises ==
    /\ pc = "installed"
    /\ GetRoot # NoEl
    /\ GetRoot.k = "vol"
    /\ \E call \in CallSites, env \in LookupAnswers :
          /\ LvmLookupFails(env)
          /\ cmdline' = [call |-> call.name, raised |-> TRUE, params |-> <<>>]
    /\ pc' = "raised"
    /\ UNCHANGED <<offKernel, kernel_params, zram_enabled>>

KernelNext ==
    \/ AddKernelParam
    \/ SetupSwap
    \/ SynthesizeCmdline
    \/ SynthesizeRaises

SpecKernel == KernelInit /\ [][KernelNext]_vars

----------------------------------------------------------------------------
\* The bootloader step.  What a function does to the target is the sequence
\* of its steps; a raise ends it.

Step(op, arg) == [op |-> op, arg |-> arg]
Strap(pkg) == << Step("strap", pkg) >>
Write(file) == << Step("write", file) >>
Mkdir(dir) == << Step("mkdir", dir) >>
Raise(err) == << Step("raise", err) >>
SetFlag(name) == << Step("flag", name) >>

\* an external command: it runs, and a failing one raises err
Command(cmd, ok, err) ==
    << Step("run", cmd) >> \o (IF ok THEN <<>> ELSE Raise(err))

\* the steps up to and including the first raise
RECURSIVE Run(_)
Run(steps) ==
    IF steps = <<>> THEN <<>>
    ELSE IF Head(steps).op = "raise" THEN << Head(steps) >>
    ELSE << Head(steps) >> \o Run(Tail(steps))

Raised(steps) ==
    IF steps # <<>> /\ Last(steps).op = "raise" THEN Last(steps).arg ELSE "none"

FlagSet(steps) ==
    IF steps # <<>> /\ Last(steps).op = "flag" THEN Last(steps).arg ELSE "None"

\* a call of _get_kernel_params inside a bootloader function
KernelParamsCall(env) == IF env.params_ok THEN <<>> ELSE Raise("ValueError")

\* the boot partition after add_bootloader's fallback to the ESP
BootPartition(env) == IF env.boot = "none" THEN "esp" ELSE env.boot
BootMounted(env) ==
    CASE BootPartition(env) = "esp" -> env.efi = "mounted"
      [] BootPartition(env) = "separate" -> TRUE
      [] OTHER -> FALSE

\* Installer._flip_bmp
FlipBmp(env) ==
    IF env.splash THEN Write("usr/share/systemd/bootctl/splash-arch.bmp") ELSE <<>>

\* Installer._config_uki
ConfigUki(env) ==
    IF env.efi # "mounted" THEN Raise("ValueError")
    ELSE Write("etc/kernel/cmdline")
         \o KernelParamsCall(env)
         \o Mkdir("etc/os-release.d")
         \o Write("etc/os-release.d/<kernel>")
         \o Write("etc/mkinitcpio.d/<kernel>.preset")
         \o Mkdir("<esp>/EFI/Linux")
         \o << Step("run", "mkinitcpio -P") >>

\* Installer._create_bls_entries
CreateBlsEntries(env) ==
    Mkdir("<boot>/loader/entries")
    \o KernelParamsCall(env)
    \o Write("<boot>/loader/entries/arch_<kernel>.conf")

\* Installer._add_systemd_bootloader
AddSystemdBootloader(cfg, env) ==
    Strap("efibootmgr")
    \o (IF ~env.has_uefi THEN Raise("HardwareIncompatibilityError") ELSE <<>>)
    \o (IF env.efi = "none" THEN Raise("ValueError") ELSE <<>>)
    \o (IF env.efi = "unmounted" THEN Raise("ValueError") ELSE <<>>)
    \o (IF env.commands_ok THEN << Step("run", "bootctl install") >>
        ELSE << Step("run", "bootctl install") >>
             \o Command("bootctl --no-variables install", FALSE, "SysCallError"))
    \o Mkdir("<esp>/loader")
    \o (IF cfg.uki_enabled THEN <<>> ELSE CreateBlsEntries(env))
    \o Write("<esp>/loader/loader.conf")
    \o SetFlag("systemd")

\* _add_grub_bootloader with grub.cfg generated before the kernel parameters
\* are written to the defaults file
AddGrubBootloaderConfigFirst(cfg, env) ==
    Strap("grub")
    \o (IF env.encrypted THEN Write("etc/default/grub") ELSE <<>>)
    \o (IF env.has_uefi
        THEN (IF env.efi = "none" THEN Raise("ValueError") ELSE <<>>)
             \o Strap("efibootmgr")
             \o Command("grub-install --efi-directory", env.commands_ok, "DiskError")
        ELSE Command("grub-install --target=i386-pc", env.commands_ok, "DiskError"))
    \o Command("grub-mkconfig", env.mkconfig_ok, "DiskError")
    \o (IF env.has_uefi /\ cfg.uki_enabled
        THEN Write("etc/grub.d/15_uki")
        ELSE KernelParamsCall(env) \o Write("etc/default/grub"))
    \o SetFlag("grub")

\* Installer._add_grub_bootloader
AddGrubBootloader(cfg, env) ==
    Strap("grub")
    \o (IF env.encrypted THEN Write("etc/default/grub") ELSE <<>>)
    \o (IF env.has_uefi
        THEN (IF env.efi = "none" THEN Raise("ValueError") ELSE <<>>)
             \o Strap("efibootmgr")
             \o Command("grub-install --efi-directory", env.commands_ok, "DiskError")
        ELSE Command("grub-install --target=i386-pc", env.commands_ok, "DiskError"))
    \o (IF env.has_uefi /\ cfg.uki_enabled
        THEN Write("etc/grub.d/15_uki")
        ELSE KernelParamsCall(env) \o Write("etc/default/grub"))
    \o Command("grub-mkconfig", env.mkconfig_ok, "DiskError")
    \o SetFlag("grub")

\* Installer._add_limine_bootloader
AddLimineBootloader(cfg, env) ==
    Strap("limine")
    \o (IF env.has_uefi
        THEN Strap("efibootmgr")
             \o (IF env.efi = "none" THEN Raise("ValueError") ELSE <<>>)
             \o (IF env.efi = "unmounted" THEN Raise("ValueError") ELSE <<>>)
             \o (IF cfg.removable THEN Mkdir("boot/limine") ELSE <<>>)
             \o Mkdir("<esp>/EFI/<limine>")
             \o Write("<esp>/EFI/<limine>/BOOTX64.EFI")
             \o (IF cfg.removable THEN <<>>
                 ELSE Command("efibootmgr --create", env.commands_ok, "ValueError"))
        ELSE Mkdir("boot/limine")
             \o Write("boot/limine/limine-bios.sys")
             \o Command("limine bios-install", env.commands_ok, "DiskError"))
    \o Mkdir("etc/pacman.d/hooks")
    \o Write("etc/pacman.d/hooks/99-limine.hook")
    \o KernelParamsCall(env)
    \o Write("limine.conf")
    \o SetFlag("limine")

\* Installer._add_efistub_bootloader
AddEfistubBootloader(cfg, env) ==
    Strap("efibootmgr")
    \o (IF ~env.has_uefi THEN Raise("HardwareIncompatibilityError") ELSE <<>>)
    \o (IF cfg.uki_enabled THEN <<>> ELSE KernelParamsCall(env))
    \o Command("efibootmgr --create", env.commands_ok, "SysCallError")
    \o SetFlag("efistub")

\* Installer._add_refind_bootloader
AddRefindBootloader(cfg, env) ==
    Strap("refind")
    \o (IF ~env.has_uefi THEN Raise("HardwareIncompatibilityError") ELSE <<>>)
    \o (IF env.efi = "none" THEN Raise("ValueError") ELSE <<>>)
    \o (IF env.efi = "unmounted" THEN Raise("ValueError") ELSE <<>>)
    \o Command("refind-install", env.commands_ok, "DiskError")
    \o (IF ~BootMounted(env) THEN Raise("ValueError") ELSE <<>>)
    \o KernelParamsCall(env)
    \o Write("boot/refind_linux.conf")
    \o Mkdir("etc/pacman.d/hooks")
    \o Write("etc/pacman.d/hooks/99-refind.hook")
    \o SetFlag("refind")

\* Installer.add_bootloader
AddBootloaderSteps(cfg, env) ==
    FlipBmp(env)
    \o (IF env.boot = "none" /\ ~(env.has_uefi /\ env.efi # "none")
        THEN Raise("ValueError") ELSE <<>>)
    \o (IF ~env.root THEN Raise("ValueError") ELSE <<>>)
    \o (IF cfg.uki_enabled THEN ConfigUki(env) ELSE <<>>)
    \o (CASE cfg.bootloader = "Systemd" -> AddSystemdBootloader(cfg, env)
          [] cfg.bootloader = "Grub" -> AddGrubBootloader(cfg, env)
          [] cfg.bootloader = "Efistub" -> AddEfistubBootloader(cfg, env)
          [] cfg.bootloader = "Limine" -> AddLimineBootloader(cfg, env)
          [] cfg.bootloader = "Refind" -> AddRefindBootloader(cfg, env)
          [] OTHER -> <<>>)

Bootloaders == {"Systemd", "Grub", "Efistub", "Limine", "Refind"}

\* efi: the ESP of the plan, if any, and whether it has a mountpoint; boot:
\* the boot partition of the plan: none, the ESP itself, or another partition
\* with or without a mountpoint; commands_ok and mkconfig_ok: whether the
\* install commands and grub-mkconfig succeed
BootEnvs ==
    { e \in [has_uefi : BOOLEAN, efi : {"none", "unmounted", "mounted"},
             boot : {"none", "esp", "separate", "unmounted"}, root : BOOLEAN,
             splash : BOOLEAN, encrypted : BOOLEAN,
             commands_ok : BOOLEAN, mkconfig_ok : BOOLEAN, params_ok : BOOLEAN] :
        e.boot = "esp" => e.efi # "none" }

BootInit ==
    /\ ExtIdle
    /\ PlanIdle /\ MountIdle /\ MenuIdle /\ KernelIdle /\ KeyIdle /\ SessionIdle /\ RunIdle
    /\ boot_env \in BootEnvs
    /\ boot_cfg \in [bootloader : Bootloaders, uki_enabled : BOOLEAN, removable : BOOLEAN]
    /\ helper_flags = "None"
    /\ pc = "installed"

\* guided.perform_installation calls add_bootloader once
AddBootloader ==
    /\ pc = "installed"
    /\ LET done == Run(AddBootloaderSteps(boot_cfg, boot_env))
       IN /\ effects' = done
          /\ raised' = Raised(done)
          /\ helper_flags' = FlagSet(done)
    /\ pc' = "bootloader"
    /\ UNCHANGED <<offBoot, boot_env, boot_cfg>>

BootNext == AddBootloader

SpecBoot == BootInit /\ [][BootNext]_vars

----------------------------------------------------------------------------
\* Key files.  A key file is named by its mapper name under
\* /etc/cryptsetup-keys.d in the target; the key files of create_keyfile are
\* named after their element.

KeyPath(n, id) == [name |-> n, of |-> id]
RootKeyPath(mapper_name) == KeyPath(mapper_name, NoEl)
KeyDir == KeyPath("", NoEl)

KeyStep(o, path, id, m) == [op |-> o, arg |-> path, el |-> id, mode |-> m]

IsRoot(id) == IF id.k = "vol" THEN VolIsRoot(VolOf(id)) ELSE PartIsRoot(PartOf(id))

\* PartitionModification.is_boot, is_efi
PartIsBoot(p) == p.mountpoint = Boot
PartIsEfi(p) == p.efi

\* DiskEncryption.should_generate_encryption_file
ShouldGenerateEncryptionFile(id) == id \in key_env.policy

\* Luks2._add_key: a key slot of the element's container takes the key file
AddKey(id, path) ==
    IF key_env.cryptsetup_ok THEN << KeyStep("add_key", path, id, "") >>
    ELSE Raise("DiskError")

\* Luks2.create_keyfile
CreateKeyfile(id) ==
    << KeyStep("write", KeyPath("mapper_name", id), id, "") >>
    \o AddKey(id, KeyPath("mapper_name", id))

\* Installer._create_root_keyfile; files is Installer._files
CreateRootKeyfileReadable(id, mapper_name, files) ==
    << KeyStep("mkdir", KeyDir, id, ""),
       KeyStep("write", RootKeyPath(mapper_name), id, ""),
       KeyStep("chmod", RootKeyPath(mapper_name), id, "400") >>
    \o AddKey(id, RootKeyPath(mapper_name))

CreateRootKeyfile(id, mapper_name, files) ==
    << KeyStep("mkdir", KeyDir, id, ""),
       KeyStep("write", RootKeyPath(mapper_name), id, ""),
       KeyStep("chmod", RootKeyPath(mapper_name), id, "000") >>
    \o AddKey(id, RootKeyPath(mapper_name))
    \o (IF RootKeyPath(mapper_name) \notin files
        THEN << KeyStep("files.append", RootKeyPath(mapper_name), id, "") >>
        ELSE <<>>)

Appended(steps) ==
    { steps[n].arg : n \in { m \in DOMAIN steps : steps[m].op = "files.append" } }

\* the test before _create_root_keyfile in the two loops
RootKeyfileAlways(id) == IsRoot(id)

RootKeyfileWanted(id) == disk_encryption.auto_unlock_root /\ IsRoot(id)

\* one round of the loop of _generate_key_files_partitions and of
\* _generate_key_file_lvm_volumes
KeyFilesOf(id, files) ==
    (IF ShouldGenerateEncryptionFile(id) /\ ~IsRoot(id) THEN CreateKeyfile(id) ELSE <<>>)
    \o (IF RootKeyfileWanted(id) THEN CreateRootKeyfile(id, "root", files) ELSE <<>>)

\* Installer._generate_key_files_partitions, _generate_key_file_lvm_volumes
RECURSIVE GenerateKeyFilesElements(_, _)
GenerateKeyFilesElements(elements, files) ==
    IF elements = <<>> THEN <<>>
    ELSE LET steps == KeyFilesOf(Head(elements), files)
         IN steps \o GenerateKeyFilesElements(Tail(elements), files \cup Appended(steps))

\* Installer.generate_key_files
GenerateKeyFilesSteps ==
    CASE disk_encryption.encryption_type = "Luks" ->
            GenerateKeyFilesElements(disk_encryption.partitions, {})
      [] disk_encryption.encryption_type = "LuksOnLvm" ->
            GenerateKeyFilesElements(disk_encryption.lvm_volumes, {})
      [] disk_encryption.encryption_type = "LvmOnLuks" ->
            LET parts == SelectSeq(disk_encryption.partitions,
                                   LAMBDA id : ~(PartIsBoot(PartOf(id)) \/ PartIsEfi(PartOf(id))))
            IN IF disk_encryption.auto_unlock_root /\ parts # <<>>
               THEN CreateRootKeyfile(Head(parts), "cryptlvm", {})
               ELSE <<>>
      [] OTHER -> <<>>

Encrypted == Range(disk_encryption.partitions) \cup Range(disk_encryption.lvm_volumes)

KeyInit ==
    /\ ExtIdle
    /\ MountIdle /\ MenuIdle /\ KernelIdle /\ BootIdle /\ SessionIdle /\ RunIdle
    /\ device_modifications \in SeqsUpTo(DistinctSeqs(PartKinds, MaxParts), 1)
    /\ lvm_config \in LvmConfigs(device_modifications)
    /\ \E plan_ \in EncryptionPlans(device_modifications, lvm_config), auto \in BOOLEAN :
          /\ plan_.encryption_type # "NoEncryption"
          /\ disk_encryption = [plan_ EXCEPT !.auto_unlock_root = auto]
    /\ key_env \in [policy : SUBSET Encrypted, cryptsetup_ok : BOOLEAN]
    /\ pc = "mounted"

\* guided.perform_installation calls generate_key_files after the mounts
GenerateKeyFiles ==
    /\ pc = "mounted"
    /\ LET done == Run(GenerateKeyFilesSteps)
       IN /\ effects' = done
          /\ raised' = Raised(done)
    /\ pc' = "keys"
    /\ UNCHANGED offKey

KeyNext == GenerateKeyFiles

SpecKey == KeyInit /\ [][KeyNext]_vars

----------------------------------------------------------------------------
\* The sanity check of the session and its readiness waits.  One step is one
\* round of a polling loop; the services change state on their own.

Finished == {"dead", "failed", "exited"}

\* Installer._verify_boot_part
VerifyBootPartRaises == boot_size > 0 /\ boot_size < MinBootMiB

BootSizes == {0, MinBootMiB - 1, MinBootMiB, 512}

SessionInit ==
    /\ ExtIdle
    /\ PlanIdle /\ MountIdle /\ MenuIdle /\ KernelIdle /\ BootIdle /\ KeyIdle /\ RunIdle
    /\ session_args \in [skip_ntp : BOOLEAN, offline : BOOLEAN, skip_wkd : BOOLEAN]
    /\ boot_size \in BootSizes
    /\ services = Pending
    /\ wait = NoWait
    /\ warnings = {}
    /\ pc = "mounted"

\* Installer.sanity_check: the call of _verify_boot_part is commented out, so
\* it enters _verify_service_stop whatever the size of /boot
SanityCheck ==
    /\ pc = "mounted"
    /\ wait' = NoWait
    /\ pc' = "ntp"
    /\ UNCHANGED <<offSession, session_args, boot_size, services, warnings>>

\* the NTP wait: while True, warn once after NtpNotifyAfter seconds, leave only
\* when timedatectl says yes
NtpWait ==
    /\ pc = "ntp"
    /\ IF session_args.skip_ntp
       THEN /\ pc' = "reflector"
            /\ wait' = [wait EXCEPT !.seen = services.reflector, !.polls = 0]
            /\ UNCHANGED warnings
       ELSE LET notify == ~wait.notified /\ wait.elapsed > NtpNotifyAfter
            IN /\ warnings' = IF notify THEN warnings \cup {"ntp taking longer"} ELSE warnings
               /\ IF services.ntp_synchronized
                  THEN /\ pc' = "reflector"
                       /\ wait' = [wait EXCEPT !.notified = @ \/ notify,
                                               !.seen = services.reflector, !.polls = 0]
                  ELSE /\ pc' = pc
                       /\ wait' = [wait EXCEPT
                                     !.notified = @ \/ notify,
                                     !.elapsed = IF @ > NtpNotifyAfter THEN @ ELSE @ + 1,
                                     !.tick = ~@]
    /\ UNCHANGED <<offSession, session_args, boot_size, services>>

\* the reflector wait: for _ in range(ReflectorPolls), then a warning
ReflectorWait ==
    /\ pc = "reflector"
    /\ IF session_args.offline
       THEN /\ pc' = "keyring_timer"
            /\ UNCHANGED <<wait, warnings>>
       ELSE IF wait.polls < ReflectorPolls /\ wait.seen \in Finished
       THEN /\ pc' = "keyring_timer"
            /\ warnings' = IF wait.seen = "failed"
                           THEN warnings \cup {"reflector failed"} ELSE warnings
            /\ UNCHANGED wait
       ELSE IF wait.polls < ReflectorPolls
       THEN /\ pc' = pc
            /\ wait' = [wait EXCEPT !.polls = @ + 1, !.seen = services.reflector,
                                    !.tick = ~@]
            /\ UNCHANGED warnings
       ELSE /\ pc' = "keyring_timer"
            /\ warnings' = warnings \cup {"reflector timed out"}
            /\ UNCHANGED wait
    /\ UNCHANGED <<offSession, session_args, boot_size, services>>

\* the first keyring wait: while the timer has not started, sleep
KeyringTimerWait ==
    /\ pc = "keyring_timer"
    /\ IF session_args.skip_wkd
       THEN pc' = "checked" /\ UNCHANGED wait
       ELSE IF services.keyring_timer
       THEN pc' = "keyring" /\ wait' = [wait EXCEPT !.seen = services.keyring]
       ELSE pc' = pc /\ wait' = [wait EXCEPT !.tick = ~@]
    /\ UNCHANGED <<offSession, session_args, boot_size, services, warnings>>

\* the second keyring wait: while the service has not finished, sleep
KeyringWait ==
    /\ pc = "keyring"
    /\ IF wait.seen \in Finished
       THEN /\ pc' = "checked"
            /\ warnings' = IF wait.seen = "failed"
                           THEN warnings \cup {"keyring failed"} ELSE warnings
            /\ UNCHANGED wait
       ELSE /\ pc' = pc
            /\ wait' = [wait EXCEPT !.seen = services.keyring, !.tick = ~@]
            /\ UNCHANGED warnings
    /\ UNCHANGED <<offSession, session_args, boot_size, services>>

\* guided.perform_installation after sanity_check, up to add_bootloader
InstallBootloader ==
    /\ pc = "checked"
    /\ pc' = "bootloader"
    /\ UNCHANGED <<offSession, sessionVars>>

\* the services of the live system
NtpSynchronizes ==
    /\ pc \in {"mounted", "ntp"}
    /\ ~services.ntp_synchronized
    /\ services' = [services EXCEPT !.ntp_synchronized = TRUE]
    /\ UNCHANGED <<offSession, session_args, boot_size, wait, warnings, pc>>

ReflectorEnds ==
    /\ pc \in {"mounted", "ntp", "reflector"}
    /\ services.reflector \notin Finished
    /\ \E st \in Finished : services' = [services EXCEPT !.reflector = st]
    /\ UNCHANGED <<offSession, session_args, boot_size, wait, warnings, pc>>

KeyringTimerStarts ==
    /\ pc \in {"reflector", "keyring_timer"}
    /\ ~services.keyring_timer
    /\ services' = [services EXCEPT !.keyring_timer = TRUE]
    /\ UNCHANGED <<offSession, session_args, boot_size, wait, warnings, pc>>

KeyringEnds ==
    /\ pc \in {"keyring_timer", "keyring"}
    /\ services.keyring_timer
    /\ services.keyring \notin Finished
    /\ \E st \in Finished : services' = [services EXCEPT !.keyring = st]
    /\ UNCHANGED <<offSession, session_args, boot_size, wait, warnings, pc>>

SessionStep ==
    \/ SanityCheck
    \/ NtpWait
    \/ ReflectorWait
    \/ KeyringTimerWait
    \/ KeyringWait
    \/ InstallBootloader

SessionNext ==
    \/ SessionStep
    \/ NtpSynchronizes
    \/ ReflectorEnds
    \/ KeyringTimerStarts
    \/ KeyringEnds

\* the installer keeps running; nothing makes a service finish
SpecSession == SessionInit /\ [][SessionNext]_vars /\ WF_vars(SessionStep)

----------------------------------------------------------------------------
\* The rescue flow (scripts/rescue.py).  rescue() is a straight run of steps
\* with no try/finally around them; a step that raises ends it there.

LuksPartitions == 1..MaxLuks

\* the selected partitions in the order of the menu
RECURSIVE InMenuOrder(_)
InMenuOrder(S) ==
    IF S = {} THEN <<>>
    ELSE LET x == CHOOSE y \in S : \A z \in S : y <= z
         IN <<x>> \o InMenuOrder(S \ {x})

\* the cleanup loops: luks.lock() for every handle; a lock() that raises is
\* suppressed or logged and the loop goes on
LockAll == { unlocked_luks[n] : n \in DOMAIN unlocked_luks }

LockLoop ==
    /\ lock_attempts' = LockAll
    /\ lock_failed' \in SUBSET LockAll

NoLock == UNCHANGED <<lock_attempts, lock_failed>>

RescueInit ==
    /\ restRescueIdle
    /\ unlocked_luks = <<>>
    /\ lock_attempts = {}
    /\ lock_failed = {}
    /\ rescue_mounted = "none"
    /\ pc = "rescue"

\* find_luks_partitions, select_luks_partitions, then unlock_luks_partition
\* for each selected one: a handle is kept for those that unlock
RescueUnlock ==
    /\ pc = "rescue"
    /\ \E found \in SUBSET LuksPartitions :
         \E selected \in SUBSET found :
           \E opened \in SUBSET selected :
              /\ unlocked_luks' = InMenuOrder(opened)
              /\ pc' = IF opened # {} THEN "rescan" ELSE "find"
    /\ NoLock
    /\ UNCHANGED <<offRescue, rescue_mounted>>

\* activate_lvm_volumes catches its error; get_all_lsblk_info is not guarded
RescueRescan ==
    /\ pc = "rescan"
    /\ \E ok \in BOOLEAN : pc' = IF ok THEN "find" ELSE "raised"
    /\ UNCHANGED <<offRescue, rescueVars>>

\* find_linux_partitions; none found: lock and return
RescueFind ==
    /\ pc = "find"
    /\ \/ pc' = "select" /\ NoLock
       \/ pc' = "returned" /\ LockLoop
    /\ UNCHANGED <<offRescue, unlocked_luks, rescue_mounted>>

\* select_partition inside Tui(); nothing selected: lock and return
RescueSelect ==
    /\ pc = "select"
    /\ \/ pc' = "mount" /\ NoLock
       \/ pc' = "returned" /\ LockLoop
       \/ pc' = "raised" /\ NoLock
    /\ UNCHANGED <<offRescue, unlocked_luks, rescue_mounted>>

\* mount_point.mkdir, which may raise OSError, then mount_partition, which
\* catches DiskError only
RescueMount ==
    /\ pc = "mount"
    /\ \/ pc' = "verify" /\ rescue_mounted' = "root" /\ NoLock
       \/ pc' = "returned" /\ LockLoop /\ UNCHANGED rescue_mounted
       \/ pc' = "raised" /\ NoLock /\ UNCHANGED rescue_mounted
    /\ UNCHANGED <<offRescue, unlocked_luks>>

\* unmount_all: get_lsblk_by_mountpoint is not guarded; umount is tried three
\* times and its failure only logged
UnmountAll ==
    \/ pc' = "raised" /\ NoLock /\ UNCHANGED rescue_mounted
    \/ pc' = "returned" /\ rescue_mounted' \in {"none", rescue_mounted} /\ LockLoop

\* verify_linux_root; not a root: unmount_all, lock and return
RescueVerify ==
    /\ pc = "verify"
    /\ \/ pc' = "chroot" /\ NoLock /\ UNCHANGED rescue_mounted
       \/ UnmountAll
    /\ UNCHANGED <<offRescue, unlocked_luks>>

\* mount_additional_filesystems catches its errors
RescueMountAdditional ==
    /\ pc = "chroot"
    /\ rescue_mounted = "root"
    /\ rescue_mounted' = "all"
    /\ NoLock
    /\ UNCHANGED <<offRescue, unlocked_luks, pc>>

\* arch-chroot, whose SysCallError and KeyboardInterrupt are caught, then
\* unmount_all and the final lock loop
RescueChrootAndCleanup ==
    /\ pc = "chroot"
    /\ UnmountAll
    /\ UNCHANGED <<offRescue, unlocked_luks>>

RescueNext ==
    \/ RescueUnlock
    \/ RescueRescan
    \/ RescueFind
    \/ RescueSelect
    \/ RescueMount
    \/ RescueVerify
    \/ RescueMountAdditional
    \/ RescueChrootAndCleanup

SpecRescue == RescueInit /\ [][RescueNext]_vars

----------------------------------------------------------------------------
\* Leaving the installation session: Installer.__exit__ after the body of the
\* with block of a script (scripts/guided.py, scripts/format.py)

\* the calls of the body that change _helper_flags or the target, in order
SessionSteps ==
    <<"mount_ordered_layout", "generate_key_files", "minimal_installation", "add_bootloader">>

SessionErrors == {"DiskError", "SysCallError", "RequirementError", "HardwareIncompatibilityError"}

FlagOfBootloader ==
    [b \in Bootloaders |->
        CASE b = "Systemd" -> "systemd"
          [] b = "Grub" -> "grub"
          [] b = "Limine" -> "limine"
          [] b = "Efistub" -> "efistub"
          [] b = "Refind" -> "refind"]

\* scripts/guided.py calls a step under these conditions; scripts/format.py
\* only mounts
Wanted(cfg, step) ==
    CASE step = "mount_ordered_layout" -> cfg.script = "format" \/ ~cfg.pre_mount
      [] step = "generate_key_files" ->
            cfg.script = "guided" /\ ~cfg.pre_mount /\ cfg.encrypted
      [] step = "minimal_installation" -> cfg.script = "guided"
      [] step = "add_bootloader" -> cfg.script = "guided" /\ cfg.bootloader # "NO_BOOTLOADER"

\* _helper_flags after minimal_installation has strapped the base packages
Strapped(flags) ==
    [k \in DOMAIN flags \cup {"base-strapped"} |->
        IF k = "base-strapped" THEN "True" ELSE flags[k]]

\* _helper_flags after a step that ran to its end
FlagsAfter(flags, cfg, step) ==
    CASE step = "minimal_installation" -> [Strapped(flags) EXCEPT !["base"] = "True"]
      [] step = "add_bootloader" ->
            [flags EXCEPT !["bootloader"] = FlagOfBootloader[cfg.bootloader]]
      [] OTHER -> flags

\* the target after a step that ran to its end
TargetAfter(target, cfg, step) ==
    IF step = "mount_ordered_layout"
    THEN [target EXCEPT !.mounted = TRUE, !.unlocked = cfg.encrypted]
    ELSE [target EXCEPT !.written = @ \cup {step}]

ExitInit ==
    /\ restExitIdle
    /\ session_flags = [k \in {"base", "bootloader"} |-> IF k = "base" THEN "False" ELSE "None"]
    /\ session_cfg \in [script : {"guided", "format"}, pre_mount : BOOLEAN, encrypted : BOOLEAN,
                        bootloader : Bootloaders \cup {"NO_BOOTLOADER"}]
    /\ session_step = 1
    /\ session_completed = {}
    /\ session_target = [mounted |-> session_cfg.pre_mount, unlocked |-> FALSE, written |-> {}]
    /\ exit_exc = ""
    /\ exit_result = [ret |-> "", reported |-> {}, synced |-> FALSE, propagated |-> ""]
    /\ pc = "session"

InBody == pc = "session" /\ exit_exc = "" /\ session_step \in DOMAIN SessionSteps

\* the script does not call the step
SessionSkips ==
    /\ InBody
    /\ ~Wanted(session_cfg, SessionSteps[session_step])
    /\ session_step' = session_step + 1
    /\ UNCHANGED <<offExit, session_flags, session_cfg, session_completed, session_target,
                   exit_exc, exit_result, pc>>

\* the step runs to its end
SessionStepCompletes ==
    /\ InBody
    /\ LET step == SessionSteps[session_step] IN
         /\ Wanted(session_cfg, step)
         /\ session_flags' = FlagsAfter(session_flags, session_cfg, step)
         /\ session_target' = TargetAfter(session_target, session_cfg, step)
         /\ session_completed' = session_completed \cup {step}
    /\ session_step' = session_step + 1
    /\ UNCHANGED <<offExit, session_cfg, exit_exc, exit_result, pc>>

\* the step raises, before or after it changed the target; minimal_installation
\* may have strapped the base packages by then
SessionStepRaises ==
    /\ InBody
    /\ LET step == SessionSteps[session_step] IN
         /\ Wanted(session_cfg, step)
         /\ session_flags' \in
              IF step = "minimal_installation"
              THEN {session_flags, Strapped(session_flags)} ELSE {session_flags}
         /\ session_target' \in {session_target, TargetAfter(session_target, session_cfg, step)}
    /\ exit_exc' \in SessionErrors
    /\ UNCHANGED <<offExit, session_cfg, session_step, session_completed, exit_result, pc>>

\* post_install_check: the steps whose flag is False
PostInstallCheck(flags) == { step \in DOMAIN flags : flags[step] = "False" }

\* what __exit__ returns
ExitSwallows(exc, missing_steps) == IF missing_steps = {} THEN "True" ELSE "False"

ExitReturn(exc, missing_steps) ==
    IF exc # "" THEN "None"
    ELSE IF missing_steps = {} THEN "True" ELSE "False"

\* the exception the with statement re-raises after __exit__ returned
Propagated(exc, ret) == IF exc # "" /\ ret # "True" THEN exc ELSE ""

BodyLeft == pc = "session" /\ (exit_exc # "" \/ session_step > Len(SessionSteps))

\* __exit__: with an exception it prints and returns None; without one it
\* syncs and reports the missing steps
Exit ==
    /\ BodyLeft
    /\ LET missing_steps == IF exit_exc # "" THEN {} ELSE PostInstallCheck(session_flags)
           ret == ExitReturn(exit_exc, missing_steps)
       IN exit_result' = [ret |-> ret, reported |-> missing_steps,
                          synced |-> exit_exc = "", propagated |-> Propagated(exit_exc, ret)]
    /\ pc' = "exited"
    /\ UNCHANGED <<offExit, session_flags, session_cfg, session_step, session_completed,
                   session_target, exit_exc>>

\* SysCommand('sync') fails: __exit__ itself raises
ExitSyncFails ==
    /\ BodyLeft
    /\ exit_exc = ""
    /\ exit_result' = [ret |-> "raised", reported |-> {}, synced |-> FALSE,
                       propagated |-> "SysCallError"]
    /\ pc' = "exited"
    /\ UNCHANGED <<offExit, session_flags, session_cfg, session_step, session_completed,
                   session_target, exit_exc>>

ExitNext ==
    \/ SessionSkips
    \/ SessionStepCompletes
    \/ SessionStepRaises
    \/ Exit
    \/ ExitSyncFails

SpecExit == ExitInit /\ [][ExitNext]_vars

----------------------------------------------------------------------------
\* Pacman.run: waiting for the database lock of another pacman session

\* the grace period, 60 * 10 seconds
PacmanGrace == 600

\* time.sleep(0.25): sleeps in a second
SleepsPerSecond == 4

\* what one time.sleep(0.25) can take, in units of 0.25 s: the time asked
\* for, one unit more, or a minute while the process was stopped
SleepTakes == {1, 2, 60 * SleepsPerSecond}

PacmanInit ==
    /\ restPacmanIdle
    /\ db_lock \in BOOLEAN
    /\ pacman_clock = 0
    /\ lock_gone_at = -1
    /\ pacman_cmd = ""
    /\ pc = "pacman"

\* if pacman_db_lock.exists(): warn(...); started = time.time()
PacmanStarted ==
    /\ pc = "pacman"
    /\ pc' = "while"
    /\ UNCHANGED <<offPacman, db_lock, pacman_clock, lock_gone_at, pacman_cmd>>

\* while pacman_db_lock.exists():
PacmanWhile ==
    /\ pc = "while"
    /\ pc' = IF db_lock THEN "sleep" ELSE "command"
    /\ UNCHANGED <<offPacman, db_lock, pacman_clock, lock_gone_at, pacman_cmd>>

\* time.sleep(0.25)
PacmanSleep ==
    /\ pc = "sleep"
    /\ \E d \in SleepTakes : pacman_clock' = pacman_clock + d
    /\ pc' = "elapsed"
    /\ UNCHANGED <<offPacman, db_lock, lock_gone_at, pacman_cmd>>

\* if time.time() - started > (60 * 10): raise SystemExit(1)
PacmanElapsed ==
    /\ pc = "elapsed"
    /\ IF pacman_clock > PacmanGrace * SleepsPerSecond
       THEN pacman_cmd' = "SystemExit" /\ pc' = "exit"
       ELSE pacman_cmd' = pacman_cmd /\ pc' = "while"
    /\ UNCHANGED <<offPacman, db_lock, pacman_clock, lock_gone_at>>

\* return SysCommand(f'{default_cmd} {args}', ...)
PacmanCommand ==
    /\ pc = "command"
    /\ pacman_cmd' = "started"
    /\ pc' = "returned"
    /\ UNCHANGED <<offPacman, db_lock, pacman_clock, lock_gone_at>>

\* the other pacman session ends and removes its lock file
LockReleased ==
    /\ pc \in {"pacman", "while", "sleep", "elapsed", "command"}
    /\ db_lock
    /\ db_lock' = FALSE
    /\ lock_gone_at' = pacman_clock
    /\ UNCHANGED <<offPacman, pacman_clock, pacman_cmd, pc>>

PacmanNext ==
    \/ PacmanStarted
    \/ PacmanWhile
    \/ PacmanSleep
    \/ PacmanElapsed
    \/ PacmanCommand
    \/ LockReleased

SpecPacman == PacmanInit /\ [][PacmanNext]_vars

----------------------------------------------------------------------------
\* The layout planner: root size, boot partitions, ZFS layout

MiBPerGiB == 1024

\* Size.convert(Unit.GiB) of a size held in MiB: truncating division
ConvertGiB(mib) == mib \div MiBPerGiB

\* process_root_partition_size: the value of the Size returned, in GiB
ProcessRootPartitionSizeTenth(total_size) == ConvertGiB(total_size) \div 10

ProcessRootPartitionSize(total_size) ==
    LET total_device_size == ConvertGiB(total_size) IN
    IF total_device_size > 500 THEN 50
    ELSE IF total_device_size < 320 THEN 32
    ELSE total_device_size \div 10

\* a PartitionModification of the planner; start and length in MiB
BootPart(start, length, mountpoint, fs_type, flags) ==
    [start |-> start, length |-> length, mountpoint |-> mountpoint,
     fs_type |-> fs_type, flags |-> flags]

BootPartitionsNoBiosGrub(using_gpt, uefi, bootloader, filesystem_type, using_subvolumes) ==
    IF uefi
    THEN << BootPart(1, MiBPerGiB, IF using_subvolumes THEN "/efi" ELSE "/boot", "fat32", {"ESP"}) >>
    ELSE << BootPart(1, MiBPerGiB, "/boot",
                     IF bootloader = "Limine" THEN "fat32" ELSE filesystem_type, {"BOOT"}) >>

\* _boot_partition
BootPartitions(using_gpt, uefi, bootloader, filesystem_type, using_subvolumes) ==
    IF uefi
    THEN << BootPart(1, MiBPerGiB, IF using_subvolumes THEN "/efi" ELSE "/boot", "fat32", {"ESP"}) >>
    ELSE LET bios_grub == using_gpt /\ bootloader = "Grub"
             start == IF bios_grub THEN 2 ELSE 1
             boot_fs == IF bootloader = "Limine" THEN "fat32" ELSE filesystem_type
         IN (IF bios_grub THEN << BootPart(1, 1, "None", "None", {"BIOS_GRUB"}) >> ELSE <<>>)
            \o << BootPart(start, MiBPerGiB, "/boot", boot_fs, {"BOOT"}) >>

\* select_main_filesystem_format, with the advanced entries
MainFilesystems == {"btrfs", "ext4", "xfs", "f2fs", "bcachefs", "ntfs"}

\* the sizes of the devices tried, in MiB: whole GiB and just below the next
TotalSizes == { g * MiBPerGiB + r : g \in 0..MaxTotalGiB, r \in {0, MiBPerGiB - 1} }

NoSuggestArgs ==
    [total_size |-> 0, uefi |-> FALSE, partition_table |-> "GPT", bootloader |-> "None",
     filesystem_type |-> "ext4", using_subvolumes |-> FALSE, device |-> "None",
     config_type |-> "Default"]

NoSuggestResult ==
    [root_size |-> 0, boot_partitions |-> <<>>, layout |-> "None", raised |-> "", wiped |-> FALSE,
     pvs |-> <<>>, volumes |-> <<>>]

\* the capacities suggest_lvm_layout is tried with
LvmCapacities ==
    { t \in TotalSizes : ConvertGiB(t) > 0 /\ ConvertGiB(t) % LvmCapacityStep = 0 }

\* PartitionModification.is_boot, is_efi of a partition of the planner
IsBoot(part) == "BOOT" \in part.flags
IsEfi(part) == "ESP" \in part.flags

\* the partitions of the default layout suggest_lvm_layout is given: the boot
\* partitions and one partition that takes the rest of the device
DefaultLayout(args) ==
    LET boot == BootPartitions(args.partition_table = "GPT", args.uefi, args.bootloader,
                               args.filesystem_type, args.using_subvolumes)
        start == Last(boot).start + Last(boot).length
    IN boot \o << BootPart(start, args.total_size, "/", args.filesystem_type, {}) >>

RECURSIVE SumLength(_)
SumLength(parts) == IF parts = <<>> THEN 0 ELSE Head(parts).length + SumLength(Tail(parts))

LvmVolume(name, length, mountpoint) == [name |-> name, length |-> length, mountpoint |-> mountpoint]

\* suggest_lvm_layout, after the boot partition was found: the physical
\* volumes and the volumes of the group, lengths in MiB
SuggestLvm(partitions, using_subvolumes) ==
    LET other(p) == ~IsBoot(p) /\ ~IsEfi(p)
        other_part == SelectSeq(partitions, other)
        total_vol_available == SumLength(other_part)
        root_vol_size == ProcessRootPartitionSize(total_vol_available) * MiBPerGiB
        home_vol_size == total_vol_available - root_vol_size
    IN [pvs |-> other_part,
        volumes |-> << LvmVolume("root", root_vol_size, "/") >>
                    \o (IF using_subvolumes THEN <<>>
                        ELSE << LvmVolume("home", home_vol_size, "/home") >>)]

\* the arguments of one call: total_size for process_root_partition_size; for
\* _boot_partition what suggest_single_disk_layout passes (GPT on UEFI,
\* subvolumes only with btrfs); for suggest_zfs_layout the firmware and
\* whether select_device returned a device
SuggestArgs(call) ==
    CASE call = "process_root_partition_size" ->
            { [NoSuggestArgs EXCEPT !.total_size = t] : t \in TotalSizes }
      [] call = "_boot_partition" ->
            { a \in [total_size : {0}, uefi : BOOLEAN, partition_table : {"GPT", "MBR"},
                     bootloader : Bootloaders \cup {"None"}, filesystem_type : MainFilesystems,
                     using_subvolumes : BOOLEAN, device : {"None"}, config_type : {"Default"}] :
                /\ a.uefi => a.partition_table = "GPT"
                /\ a.using_subvolumes => a.filesystem_type = "btrfs" }
      [] call = "suggest_zfs_layout" ->
            { [NoSuggestArgs EXCEPT !.uefi = u, !.device = d] :
                 u \in BOOLEAN, d \in {"None", "sda", "nvme0n1"} }
      [] call = "suggest_lvm_layout" ->
            { a \in [total_size : LvmCapacities, uefi : BOOLEAN, partition_table : {"GPT", "MBR"},
                     bootloader : Bootloaders \cup {"None"}, filesystem_type : {"btrfs", "ext4"},
                     using_subvolumes : BOOLEAN, device : {"None"},
                     config_type : {"Default", "Manual"}] :
                /\ a.uefi => a.partition_table = "GPT"
                /\ a.using_subvolumes => a.filesystem_type = "btrfs" }

SuggestInit ==
    /\ restSuggestIdle
    /\ pc \in {"process_root_partition_size", "_boot_partition", "suggest_zfs_layout",
              "suggest_lvm_layout"}
    /\ suggest_args \in SuggestArgs(pc)
    /\ suggest_result = NoSuggestResult

CallProcessRootPartitionSize ==
    /\ pc = "process_root_partition_size"
    /\ suggest_result' =
          [suggest_result EXCEPT !.root_size = ProcessRootPartitionSize(suggest_args.total_size)]
    /\ pc' = "returned"
    /\ UNCHANGED <<offSuggest, suggest_args>>

CallBootPartition ==
    /\ pc = "_boot_partition"
    /\ suggest_result' =
          [suggest_result EXCEPT !.boot_partitions =
              BootPartitions(suggest_args.partition_table = "GPT", suggest_args.uefi,
                            suggest_args.bootloader, suggest_args.filesystem_type,
                            suggest_args.using_subvolumes)]
    /\ pc' = "returned"
    /\ UNCHANGED <<offSuggest, suggest_args>>

\* suggest_zfs_layout: select_device first, then SysInfo.has_uefi(); the
\* layout it returns is a plan (wipe=True is carried out later)
SuggestZfsLayout ==
    /\ pc = "suggest_zfs_layout"
    /\ IF suggest_args.device = "None"
       THEN suggest_result' = suggest_result /\ pc' = "returned"
       ELSE IF ~suggest_args.uefi
       THEN suggest_result' = [suggest_result EXCEPT !.raised = "ValueError"] /\ pc' = "raised"
       ELSE /\ suggest_result' =
                 [suggest_result EXCEPT
                     !.layout = "zfs",
                     !.boot_partitions = << BootPart(1, MiBPerGiB, "/boot", "fat32", {"ESP"}) >>]
            /\ pc' = "returned"
    /\ UNCHANGED <<offSuggest, suggest_args>>

\* suggest_lvm_layout, the filesystem and the subvolumes already chosen
SuggestLvmLayout ==
    /\ pc = "suggest_lvm_layout"
    /\ LET partitions == DefaultLayout(suggest_args)
           boots(p) == IsBoot(p) \/ IsEfi(p)
       IN IF suggest_args.config_type # "Default" \/ SelectSeq(partitions, boots) = <<>>
          THEN suggest_result' = [suggest_result EXCEPT !.raised = "ValueError"] /\ pc' = "raised"
          ELSE LET lvm == SuggestLvm(partitions, suggest_args.using_subvolumes)
               IN /\ suggest_result' =
                        [suggest_result EXCEPT !.layout = "lvm", !.pvs = lvm.pvs,
                                               !.volumes = lvm.volumes]
                  /\ pc' = "returned"
    /\ UNCHANGED <<offSuggest, suggest_args>>

SuggestNext ==
    \/ SuggestLvmLayout
    \/ CallProcessRootPartitionSize
    \/ CallBootPartition
    \/ SuggestZfsLayout

SpecSuggest == SuggestInit /\ [][SuggestNext]_vars

----------------------------------------------------------------------------
\* GlobalMenu._is_config_valid and _validate_bootloader

FatFilesystems == {"fat12", "fat16", "fat32"}

\* the filesystem of a partition found by get_boot_partition or
\* get_efi_partition: "absent" when none is found, "None" when unformatted
FoundFilesystems == {"absent", "None", "ext4", "btrfs"} \cup FatFilesystems

ValidateBootloaderWithoutLimine(cfg) ==
    IF cfg.bootloader \in {"None", "NO_BOOTLOADER"} THEN "None"
    ELSE IF ~cfg.disk_config THEN "No disk layout selected"
    ELSE IF ~cfg.root_partition THEN "Root partition not found"
    ELSE IF cfg.boot_fs = "absent" THEN "Boot partition not found"
    ELSE IF cfg.uefi /\ cfg.efi_fs = "absent" THEN "EFI system partition (ESP) not found"
    ELSE IF cfg.uefi /\ cfg.efi_fs \notin FatFilesystems
         THEN "ESP must be formatted as a FAT filesystem"
    ELSE IF cfg.bootloader = "Refind" /\ ~cfg.uefi
         THEN "rEFInd can only be used on UEFI systems"
    ELSE "None"

\* _validate_bootloader: None or the error message
ValidateBootloader(cfg) ==
    IF cfg.bootloader \in {"None", "NO_BOOTLOADER"} THEN "None"
    ELSE IF ~cfg.disk_config THEN "No disk layout selected"
    ELSE IF ~cfg.root_partition THEN "Root partition not found"
    ELSE IF cfg.boot_fs = "absent" THEN "Boot partition not found"
    ELSE IF cfg.uefi /\ cfg.efi_fs = "absent" THEN "EFI system partition (ESP) not found"
    ELSE IF cfg.uefi /\ cfg.efi_fs \notin FatFilesystems
         THEN "ESP must be formatted as a FAT filesystem"
    ELSE IF cfg.bootloader = "Limine" /\ cfg.boot_fs \notin FatFilesystems
         THEN "Limine does not support booting with a non-FAT boot partition"
    ELSE IF cfg.bootloader = "Refind" /\ ~cfg.uefi
         THEN "rEFInd can only be used on UEFI systems"
    ELSE "None"

\* _is_config_valid
IsConfigValid(cfg) == ~cfg.missing_configs /\ ValidateBootloader(cfg) = "None"

\* what the menu can hold: partitions are only looked up in a disk
\* configuration, the ESP only on UEFI
MenuConfigs ==
    { cfg \in [bootloader : Bootloaders \cup {"None", "NO_BOOTLOADER"}, disk_config : BOOLEAN,
               root_partition : BOOLEAN, boot_fs : FoundFilesystems, efi_fs : FoundFilesystems,
               uefi : BOOLEAN, missing_configs : BOOLEAN] :
        /\ ~cfg.disk_config => ~cfg.root_partition /\ cfg.boot_fs = "absent" /\ cfg.efi_fs = "absent"
        /\ ~cfg.uefi => cfg.efi_fs = "absent" }

ValidateInit ==
    /\ restValidateIdle
    /\ menu_config \in MenuConfigs
    /\ config_valid = [valid |-> FALSE, error |-> "", install |-> FALSE]
    /\ pc = "menu"

\* the menu asks whether the configuration is valid
CheckConfig ==
    /\ pc = "menu"
    /\ config_valid' = [config_valid EXCEPT !.valid = IsConfigValid(menu_config),
                                            !.error = ValidateBootloader(menu_config)]
    /\ pc' = "checked"
    /\ UNCHANGED <<offValidate, menu_config>>

\* Install is only offered for a valid configuration
StartInstall ==
    /\ pc = "checked"
    /\ config_valid.valid
    /\ config_valid' = [config_valid EXCEPT !.install = TRUE]
    /\ pc' = "install"
    /\ UNCHANGED <<offValidate, menu_config>>

ValidateNext ==
    \/ CheckConfig
    \/ StartInstall

SpecValidate == ValidateInit /\ [][ValidateNext]_vars

----------------------------------------------------------------------------
\* The mirror configuration: parsed from a file, saved, read back

\* region names, numbered in alphabetical order
RegionNames == 1..MaxRegions

MirrorUrls == {"https://a.example/$repo/os/$arch", "https://b.example/$repo/os/$arch"}

\* an Enum member made from its value, and its .value
EnumOf(cls, value) == <<cls, value>>
ValueOf(member) == member[2]

NoMirrorConfig ==
    [mirror_regions |-> <<>>, custom_servers |-> <<>>, optional_repositories |-> <<>>,
     custom_repositories |-> <<>>]

\* CustomRepository.parse_args
ParseCustomRepository(arg) ==
    [name |-> arg.name, url |-> arg.url,
     sign_check |-> EnumOf("SignCheck", arg.sign_check),
     sign_option |-> EnumOf("SignOption", arg.sign_option)]

\* CustomRepository.json
CustomRepositoryJson(repo) ==
    [name |-> repo.name, url |-> repo.url,
     sign_check |-> ValueOf(repo.sign_check), sign_option |-> ValueOf(repo.sign_option)]

\* PacmanConfiguration.parse_args; in a file the custom repositories are
\* under custom_repositories or, in older files, under custom_mirrors
ParseArgs(args) ==
    [mirror_regions |->
        [i \in DOMAIN args.mirror_regions |->
            [name |-> args.mirror_regions[i].key, urls |-> args.mirror_regions[i].value]],
     custom_servers |-> [i \in DOMAIN args.custom_servers |-> [url |-> args.custom_servers[i].url]],
     optional_repositories |->
        [i \in DOMAIN args.optional_repositories |->
            EnumOf("Repository", args.optional_repositories[i])],
     custom_repositories |->
        LET given == IF args.custom_repositories_key = "absent" THEN <<>>
                     ELSE args.custom_repositories
        IN [i \in DOMAIN given |-> ParseCustomRepository(given[i])]]

\* regions.update(m.json()) for each region in turn: a dict keeps the place
\* of a key it already has and takes the new value
RECURSIVE DictUpdate(_, _)
DictUpdate(dict, regions) ==
    IF regions = <<>> THEN dict
    ELSE LET m == Head(regions)
             at == { i \in DOMAIN dict : dict[i].key = m.name }
             item == [key |-> m.name, value |-> m.urls]
         IN DictUpdate(IF at = {} THEN Append(dict, item)
                       ELSE [i \in DOMAIN dict |-> IF i \in at THEN item ELSE dict[i]],
                       Tail(regions))

\* PacmanConfiguration.json
PacmanConfigurationJson(config) ==
    [mirror_regions |-> DictUpdate(<<>>, config.mirror_regions),
     custom_servers |-> config.custom_servers,
     optional_repositories |->
        [i \in DOMAIN config.optional_repositories |-> ValueOf(config.optional_repositories[i])],
     custom_repositories |->
        [i \in DOMAIN config.custom_repositories |->
            CustomRepositoryJson(config.custom_repositories[i])],
     custom_repositories_key |-> "custom_repositories"]

\* the items of a dict in the order of their keys
RECURSIVE SortKeys(_)
SortKeys(dict) ==
    IF dict = <<>> THEN <<>>
    ELSE LET i == CHOOSE j \in DOMAIN dict : \A k \in DOMAIN dict : dict[j].key <= dict[k].key
         IN <<dict[i]>> \o SortKeys(SubSeq(dict, 1, i - 1) \o SubSeq(dict, i + 1, Len(dict)))

\* json.dumps(out, indent=4, sort_keys=True, cls=JSON): every dict is written
\* with its keys sorted; the encoder writes a CustomServer as its json()
Dumps(out) ==
    [out EXCEPT !.mirror_regions = SortKeys(@),
                !.custom_servers = [i \in DOMAIN @ |-> [url |-> @[i].url]]]

\* the sequences of up to n different elements of S
Arrangements(S, n) ==
    { s \in UNION { [1..m -> S] : m \in 0..n } : \A i, j \in DOMAIN s : i # j => s[i] # s[j] }

SignChecks == {"Never", "Optional", "Required"}
SignOptions == {"TrustedOnly", "TrustAll"}

\* the mirror_config objects a configuration file can hold
ConfigFiles ==
    { f \in [mirror_regions : Arrangements(RegionNames, MaxRegions),
             urls : [RegionNames -> {<<>>} \cup { <<u>> : u \in MirrorUrls }],
             custom_servers : Arrangements(MirrorUrls, MaxServers),
             optional_repositories : Arrangements({"multilib", "testing"}, 2),
             sign_check : SignChecks,
             custom_repositories_key : {"absent", "custom_mirrors", "custom_repositories"}] :
        \A n \in RegionNames :
            (\A i \in DOMAIN f.mirror_regions : f.mirror_regions[i] # n) => f.urls[n] = <<>> }

FileOf(f) ==
    [mirror_regions |->
        [i \in DOMAIN f.mirror_regions |->
            [key |-> f.mirror_regions[i], value |-> f.urls[f.mirror_regions[i]]]],
     custom_servers |-> [i \in DOMAIN f.custom_servers |-> [url |-> f.custom_servers[i]]],
     optional_repositories |-> f.optional_repositories,
     custom_repositories |->
        IF f.custom_repositories_key = "absent" THEN <<>>
        ELSE << [name |-> "myrepo", url |-> "https://repo.example/$arch",
                 sign_check |-> f.sign_check, sign_option |-> "TrustAll"] >>,
     custom_repositories_key |-> f.custom_repositories_key]

\* nothing saved yet
NoFile ==
    [mirror_regions |-> <<>>, custom_servers |-> <<>>, optional_repositories |-> <<>>,
     custom_repositories |-> <<>>, custom_repositories_key |-> "absent"]

MirrorInit ==
    /\ restMirrorIdle
    /\ config_file \in { FileOf(f) : f \in ConfigFiles }
    /\ arch_config = NoMirrorConfig
    /\ saved_file = NoFile
    /\ read_config = NoMirrorConfig
    /\ pc = "config"

\* ArchConfig.from_config: mirror_config = parse_args(args_config['mirror_config'])
FromConfig ==
    /\ pc = "config"
    /\ arch_config' = ParseArgs(config_file)
    /\ pc' = "parsed"
    /\ UNCHANGED <<offMirror, config_file, saved_file, read_config>>

\* ConfigurationHandler.save: safe_json, json.dumps, write_text
Save ==
    /\ pc = "parsed"
    /\ saved_file' = Dumps(PacmanConfigurationJson(arch_config))
    /\ pc' = "saved"
    /\ UNCHANGED <<offMirror, config_file, arch_config, read_config>>

\* the saved file given with --config
ReadSaved ==
    /\ pc = "saved"
    /\ read_config' = ParseArgs(saved_file)
    /\ pc' = "read"
    /\ UNCHANGED <<offMirror, config_file, arch_config, saved_file>>

MirrorNext ==
    \/ FromConfig
    \/ Save
    \/ ReadSaved

SpecMirror == MirrorInit /\ [][MirrorNext]_vars

----------------------------------------------------------------------------
\* loader.conf written by _add_systemd_bootloader.  A line is the word it
\* starts with and the rest of it.

Line(start, rest) == [start |-> start, rest |-> rest]

\* lines a loader.conf found in the ESP can hold
LoaderLines ==
    { Line("default", " old-entry.conf"), Line("#timeout", " 3"), Line("timeout", " 5"),
      Line("#console-mode", " keep"), Line("editor", " no") }

Kernels == {"linux", "linux-lts"}

\* default_entry
DefaultEntry(kernels, uki_enabled) ==
    IF uki_enabled THEN " arch-" \o Head(kernels) \o ".efi"
    ELSE " arch_" \o Head(kernels) \o ".conf"

\* the lines written: a new file, or the lines read with every default line
\* replaced and every #timeout line uncommented
LoaderData(found, lines, default) ==
    IF ~found THEN << default, Line("timeout", " 15") >>
    ELSE [index \in DOMAIN lines |->
            IF lines[index].start = "default" THEN default
            ELSE IF lines[index].start = "#timeout" THEN Line("timeout", lines[index].rest)
            ELSE lines[index]]

LoaderInit ==
    /\ restLoaderIdle
    /\ loader_args \in
          { a \in [kernels : { <<k>> : k \in Kernels } \cup { <<k, l>> : k, l \in Kernels },
                   uki_enabled : BOOLEAN, found : BOOLEAN,
                   lines : UNION { [1..n -> LoaderLines] : n \in 0..MaxLines }] :
              /\ ~a.found => a.lines = <<>>
              /\ Len(a.kernels) = 2 => a.kernels[1] # a.kernels[2] }
    /\ loader_conf = <<>>
    /\ pc = "bootctl installed"

\* Modify or create a loader.conf
WriteLoaderConf ==
    /\ pc = "bootctl installed"
    /\ loader_conf' =
          LoaderData(loader_args.found, loader_args.lines,
                     Line("default", DefaultEntry(loader_args.kernels, loader_args.uki_enabled)))
    /\ pc' = "loader.conf written"
    /\ UNCHANGED <<offLoader, loader_args>>

LoaderNext == WriteLoaderConf

SpecLoader == LoaderInit /\ [][LoaderNext]_vars

----------------------------------------------------------------------------
\* The guided installation: the installer methods perform_installation calls,
\* in the order of its statements, and what they do to Installer._files, to
\* Installer._kernel_params, to the initramfs and to the bootloader's
\* command line.

\* the statements of perform_installation that matter here, in source order
GuidedOrderBootloaderFirst ==
    << "mount_ordered_layout", "generate_key_files", "add_bootloader",
       "minimal_installation", "install_applications" >>

GuidedOrder ==
    << "mount_ordered_layout", "generate_key_files", "minimal_installation",
       "install_applications", "add_bootloader" >>

RootKeyfile == "/etc/cryptsetup-keys.d/root.key"
ApparmorKernelParams == << "lsm=landlock,lockdown,yama,integrity,apparmor,bpf" >>

\* root_keyfile: generate_key_files reaches _create_root_keyfile
GuidedConfigs ==
    { c \in [pre_mount : BOOLEAN, encrypted : BOOLEAN, root_keyfile : BOOLEAN,
             bootloader_config : {"None", "NO_BOOTLOADER", "bootloader"}, uki : BOOLEAN,
             app_config : BOOLEAN, apparmor : BOOLEAN] :
        /\ c.root_keyfile => c.encrypted
        /\ c.apparmor => c.app_config
        /\ c.bootloader_config = "None" => ~c.uki }

\* run_mkinitcpio
RunMkinitcpio(config) == config.bootloader_config = "None" \/ ~config.uki

NoBootCmdline == [written |-> FALSE, params |-> <<>>]

GuidedInit ==
    /\ restGuidedIdle
    /\ guided_cfg \in GuidedConfigs
    /\ guided_pos = 1
    /\ guided_done = <<>>
    /\ guided_files = <<>>
    /\ guided_kernel_params = <<>>
    /\ initramfs = <<>>
    /\ boot_cmdline = NoBootCmdline
    /\ pc = "perform_installation"

\* the statement at guided_pos is the call of method: it is made when its
\* condition holds, and the next statement follows
AtStatement(method) ==
    /\ pc = "perform_installation"
    /\ guided_pos \in DOMAIN GuidedOrder
    /\ GuidedOrder[guided_pos] = method
    /\ guided_pos' = guided_pos + 1
    /\ pc' = pc

Called(condition, method) ==
    guided_done' = IF condition THEN Append(guided_done, method) ELSE guided_done

\* Installer.mkinitcpio writes FILES=(self._files) and runs mkinitcpio
Mkinitcpio(run) == IF run THEN Append(initramfs, guided_files) ELSE initramfs

GuidedMountOrderedLayout ==
    /\ AtStatement("mount_ordered_layout")
    /\ Called(~guided_cfg.pre_mount, "mount_ordered_layout")
    /\ UNCHANGED <<offGuided, guided_cfg, guided_files, guided_kernel_params, initramfs,
                   boot_cmdline>>

GuidedGenerateKeyFiles ==
    /\ AtStatement("generate_key_files")
    /\ LET condition == ~guided_cfg.pre_mount /\ guided_cfg.encrypted
       IN /\ Called(condition, "generate_key_files")
          /\ guided_files' =
                IF condition /\ guided_cfg.root_keyfile /\ RootKeyfile \notin Range(guided_files)
                THEN Append(guided_files, RootKeyfile) ELSE guided_files
    /\ UNCHANGED <<offGuided, guided_cfg, guided_kernel_params, initramfs, boot_cmdline>>

GuidedMinimalInstallation ==
    /\ AtStatement("minimal_installation")
    /\ Called(TRUE, "minimal_installation")
    /\ initramfs' = Mkinitcpio(RunMkinitcpio(guided_cfg))
    /\ UNCHANGED <<offGuided, guided_cfg, guided_files, guided_kernel_params, boot_cmdline>>

GuidedInstallApplications ==
    /\ AtStatement("install_applications")
    /\ Called(guided_cfg.app_config, "install_applications")
    /\ guided_kernel_params' =
          IF guided_cfg.app_config /\ guided_cfg.apparmor
          THEN guided_kernel_params \o ApparmorKernelParams ELSE guided_kernel_params
    /\ UNCHANGED <<offGuided, guided_cfg, guided_files, initramfs, boot_cmdline>>

GuidedAddBootloader ==
    /\ AtStatement("add_bootloader")
    /\ LET condition == guided_cfg.bootloader_config = "bootloader"
       IN /\ Called(condition, "add_bootloader")
          /\ initramfs' = Mkinitcpio(condition /\ guided_cfg.uki)
          /\ boot_cmdline' =
                IF condition THEN [written |-> TRUE, params |-> guided_kernel_params]
                ELSE boot_cmdline
    /\ UNCHANGED <<offGuided, guided_cfg, guided_files, guided_kernel_params>>

\* the method called at guided_pos raises: nothing after it runs
GuidedRaises ==
    /\ pc = "perform_installation"
    /\ guided_pos \in DOMAIN GuidedOrder
    /\ pc' = "raised"
    /\ UNCHANGED <<offGuided, guidedVars>>

GuidedReturns ==
    /\ pc = "perform_installation"
    /\ guided_pos \notin DOMAIN GuidedOrder
    /\ pc' = "installed"
    /\ UNCHANGED <<offGuided, guidedVars>>

GuidedNext ==
    \/ GuidedMountOrderedLayout
    \/ GuidedGenerateKeyFiles
    \/ GuidedMinimalInstallation
    \/ GuidedInstallApplications
    \/ GuidedAddBootloader
    \/ GuidedRaises
    \/ GuidedReturns

SpecGuided == GuidedInit /\ [][GuidedNext]_vars

----------------------------------------------------------------------------
\* The initramfs hooks minimal_installation prepares.  Positions are those of
\* Python lists, from 0.

\* Installer.__init__: self._hooks
DefaultHooks ==
    << "base", "systemd", "autodetect", "microcode", "modconf", "kms", "keyboard",
       "sd-vconsole", "block", "filesystems", "fsck" >>

\* list.index
Index(list, x) == (CHOOSE n \in DOMAIN list : list[n] = x /\ \A m \in 1..(n - 1) : list[m] # x) - 1

\* list.insert for a position inside the list
ListInsert(list, at, x) == SubSeq(list, 1, at) \o << x >> \o SubSeq(list, at + 1, Len(list))

\* list.remove
ListRemove(list, x) == SubSeq(list, 1, Index(list, x)) \o SubSeq(list, Index(list, x) + 2, Len(list))

\* Installer._prepare_fs_type (what it does to the hooks)
PrepareFsType(list, el) ==
    IF el.fs_type = "ntfs3" /\ el.at_target /\ "fsck" \in Range(list)
    THEN ListRemove(list, "fsck") ELSE list

\* Installer._prepare_encrypt
PrepareEncrypt(list, before) ==
    IF "sd-encrypt" \notin Range(list) THEN ListInsert(list, Index(list, before), "sd-encrypt")
    ELSE list

\* the else branch of minimal_installation: every partition with a filesystem
RECURSIVE PreparePartitions(_, _)
PreparePartitions(list, parts) ==
    IF parts = <<>> THEN list
    ELSE LET part == Head(parts)
             prepared == PrepareFsType(list, part)
         IN PreparePartitions(
               IF part.fs_type = "None" THEN list
               ELSE IF part.encrypted THEN PrepareEncrypt(prepared, "filesystems")
               ELSE prepared,
               Tail(parts))

RECURSIVE PrepareVolumes(_, _)
PrepareVolumes(list, vols) ==
    IF vols = <<>> THEN list
    ELSE PrepareVolumes(
            IF Head(vols).fs_type = "None" THEN list ELSE PrepareFsType(list, Head(vols)),
            Tail(vols))

\* minimal_installation, up to the microcode
PrepareHooks(list, layout) ==
    IF layout.lvm_config
    THEN LET with_lvm == ListInsert(list, Index(list, "filesystems") - 1, "lvm2")
             prepared == PrepareVolumes(with_lvm, layout.elements)
         IN IF layout.encryption_type \in {"LvmOnLuks", "LuksOnLvm"}
            THEN PrepareEncrypt(prepared, "lvm2") ELSE prepared
    ELSE PreparePartitions(list, layout.elements)

\* the partitions, or the volumes of an LVM layout: filesystem, whether the
\* mountpoint is the target, whether the partition is in the encrypted set
HookElements ==
    [fs_type : {"ext4", "btrfs", "ntfs3", "None"}, at_target : BOOLEAN, encrypted : BOOLEAN]

HooksInit ==
    /\ restHooksIdle
    /\ hooks_plan \in
          { l \in [lvm_config : BOOLEAN,
                   encryption_type : {"NoEncryption", "Luks", "LvmOnLuks", "LuksOnLvm"},
                   elements : SeqsUpTo(HookElements, MaxParts)] :
              /\ l.encryption_type \in {"LvmOnLuks", "LuksOnLvm"} => l.lvm_config
              /\ l.encryption_type = "Luks" => ~l.lvm_config
              /\ \A n \in DOMAIN l.elements :
                    l.elements[n].encrypted => l.encryption_type = "Luks" }
    /\ hooks = DefaultHooks
    /\ pc = "constructed"

MinimalInstallation ==
    /\ pc = "constructed"
    /\ hooks' = PrepareHooks(hooks, hooks_plan)
    /\ pc' = "hooks prepared"
    /\ UNCHANGED <<offHooks, hooks_plan>>

HooksNext == MinimalInstallation

SpecHooks == HooksInit /\ [][HooksNext]_vars

----------------------------------------------------------------------------
\* One partition mounted both ways: by _mount_partition from its device, and
\* by _mount_luks_partition from the mapper of its unlocked container.

\* the partitions tried: those of the plans that exist on the device, and a
\* BTRFS partition that has a mountpoint of its own besides its subvolumes
MountCases ==
    { p \in PartKinds : p.dev_path }
    \cup { PartRec(Root, "btrfs", DefaultSubvols, TRUE, FALSE, FALSE),
           PartRec(Home, "btrfs", << Subvol("@data", NoPath) >>, TRUE, FALSE, FALSE),
           PartRec(Home, "btrfs", <<>>, TRUE, FALSE, FALSE) }

BothWaysInit ==
    /\ ExtIdle
    /\ MenuIdle /\ KernelIdle /\ BootIdle /\ KeyIdle /\ SessionIdle /\ RunIdle
    /\ device_modifications \in { <<parts>> : parts \in SeqsUpTo(MountCases, MaxParts) }
    /\ lvm_config = <<>>
    /\ disk_encryption = NoPlan
    /\ luks_handlers = {}
    /\ log = <<>>
    /\ pc = "plan"

MountFromDevice ==
    /\ pc = "plan"
    /\ log' = log \o Flatten([n \in DOMAIN device_modifications[1] |-> MountPartition(PartId(1, n))])
    /\ pc' = "mounted from device"
    /\ UNCHANGED <<offMount, luks_handlers>>

MountFromMapper ==
    /\ pc = "mounted from device"
    /\ log' = log \o Flatten([n \in DOMAIN device_modifications[1] |->
                                 MountLuksPartition(PartId(1, n))])
    /\ pc' = "mounted both ways"
    /\ UNCHANGED <<offMount, luks_handlers>>

BothWaysNext ==
    \/ MountFromDevice
    \/ MountFromMapper

SpecBothWays == BothWaysInit /\ [][BothWaysNext]_vars

----------------------------------------------------------------------------
\* run_aur_installation.  The build of a package ends well, with the
\* SysCallError of a failing command, or with another exception (an
\* interrupt, an OSError of the chroot).

BuildOutcomes == {"ok", "SysCallError", "KeyboardInterrupt"}

\* except SysCallError
Caught(outcome) == outcome = "SysCallError"

\* the finally clause only when the loop ended without an exception
FinallyOnReturn(rule, exc) == IF exc = "none" /\ rule = "written" THEN "removed" ELSE rule

\* finally: aur_rule.unlink(missing_ok=True)
Finally(rule, exc) == IF rule = "written" THEN "removed" ELSE rule

AurInit ==
    /\ restAurIdle
    /\ aur_args \in [elev : BOOLEAN, packages : SeqsUpTo(BuildOutcomes, MaxPackages)]
    /\ aur_rule = "absent"
    /\ aur_attempted = <<>>
    /\ aur_exc = "none"
    /\ pc = "run_aur_installation"

\* up to the try statement: without a user with elevation nothing is done
AurPrepare ==
    /\ pc = "run_aur_installation"
    /\ IF aur_args.elev
       THEN aur_rule' = "written" /\ pc' = "for pkg in packages"
       ELSE aur_rule' = aur_rule /\ pc' = "returned"
    /\ UNCHANGED <<offAur, aur_args, aur_attempted, aur_exc>>

\* one turn of the loop
AurInstall ==
    /\ pc = "for pkg in packages"
    /\ Len(aur_attempted) < Len(aur_args.packages)
    /\ LET pkg == Len(aur_attempted) + 1
           outcome == aur_args.packages[pkg]
       IN /\ aur_attempted' = Append(aur_attempted, pkg)
          /\ IF outcome = "ok" \/ Caught(outcome)
             THEN aur_exc' = aur_exc /\ pc' = pc
             ELSE aur_exc' = outcome /\ pc' = "finally"
    /\ UNCHANGED <<offAur, aur_args, aur_rule>>

AurLoopEnds ==
    /\ pc = "for pkg in packages"
    /\ Len(aur_attempted) = Len(aur_args.packages)
    /\ pc' = "finally"
    /\ UNCHANGED <<offAur, aurVars>>

AurFinally ==
    /\ pc = "finally"
    /\ aur_rule' = Finally(aur_rule, aur_exc)
    /\ pc' = IF aur_exc = "none" THEN "returned" ELSE "raised"
    /\ UNCHANGED <<offAur, aur_args, aur_attempted, aur_exc>>

AurNext ==
    \/ AurPrepare
    \/ AurInstall
    \/ AurLoopEnds
    \/ AurFinally

SpecAur == AurInit /\ [][AurNext]_vars

----------------------------------------------------------------------------
\* Properties of the mount sequence

IsMountCall(e) == e.op \in {"mount", "swapon"}
IsImportCall(e) == e.op \in {"import_vg", "vol_change"}

PartMounts == { n \in DOMAIN log : IsMountCall(log[n]) /\ log[n].el.k = "part" }

RootDevices == { d \in DOMAIN device_modifications : DeviceHasRoot(d) }
RootDevice == CHOOSE d \in RootDevices : \A e \in RootDevices : d <= e

ElemMountpoint(id) == IF id.k = "part" THEN PartOf(id).mountpoint ELSE VolOf(id).mountpoint

\* C1: when a device holds the root partition (the first such device of the
\* list, the only one in a plan with one root), every mount of one of its
\* partitions is issued before every mount of a partition of another device,
\* wherever that device stands in the configured list.
C1_RootDeviceMountedFirst ==
    RootDevices # {} =>
        \A i, j \in PartMounts :
            (log[i].el.a = RootDevice /\ log[j].el.a # RootDevice) => i < j

\* C1 witness: the root device is not the first configured device, the layout
\* is mounted, and partitions of both devices were mounted.
C1_Witness ==
    /\ pc = "mounted"
    /\ RootDevices # {}
    /\ RootDevice > 1
    /\ \E i, j \in PartMounts : log[i].el.a = RootDevice /\ log[j].el.a = 1

\* C2: within one device, and within one volume group, the elements are
\* mounted in ascending order of their mountpoint (none counts as /), so no
\* element is mounted before an element whose mountpoint is an ancestor of its
\* own.
C2_AscendingWithinDevice ==
    \A i, j \in DOMAIN log :
        ( /\ i < j
          /\ IsMountCall(log[i]) /\ IsMountCall(log[j])
          /\ log[i].el.k = log[j].el.k
          /\ log[i].el.a = log[j].el.a
          /\ log[i].el # log[j].el )
        => LET ki == SortKey([mountpoint |-> ElemMountpoint(log[i].el)])
               kj == SortKey([mountpoint |-> ElemMountpoint(log[j].el)])
           IN /\ ~PathLess(kj, ki)
              /\ ~IsAncestor(kj, ki)

\* C2 witness: a device whose plan lists /var/log before /, and a volume group
\* whose plan lists /home before /, both mounted parent first.
C2_Witness ==
    /\ pc = "mounted"
    /\ \E i, j \in DOMAIN log :
          /\ i < j /\ log[i].op = "mount" /\ log[j].op = "mount"
          /\ log[i].el.k = "part" /\ log[j].el.k = "part"
          /\ log[i].el.a = log[j].el.a /\ log[i].el.b > log[j].el.b
          /\ log[i].target = Root /\ log[j].target = VarLog
    /\ \E i, j \in DOMAIN log :
          /\ i < j /\ log[i].op = "mount" /\ log[j].op = "mount"
          /\ log[i].el.k = "vol" /\ log[j].el.k = "vol"
          /\ log[i].el.a = log[j].el.a /\ log[i].el.b > log[j].el.b
          /\ log[i].target = Root /\ log[j].target = Home

Unlocked == { log[n].el : n \in { m \in DOMAIN log : log[m].op = "unlock" } }
Imported == { log[n].el : n \in { m \in DOMAIN log : IsImportCall(log[m]) } }
AllImports ==
    { VolId(g, 0) : g \in DOMAIN lvm_config } \cup VolIds(lvm_config)
Selected(elements) == { elements[n] : n \in { m \in DOMAIN elements : Unlockable(elements[m]) } }

\* C3: with LvmOnLuks every unlock precedes every volume group import, and the
\* first import finds every selected partition (that has a device path)
\* unlocked; with LuksOnLvm every import and activation precedes every unlock,
\* and the first unlock finds every group imported and every volume activated;
\* in both, every mount comes after all of these steps and finds them complete.
C3_UnlockImportOrder ==
    LET t == disk_encryption.encryption_type IN
    /\ t = "LvmOnLuks" =>
          /\ \A i, j \in DOMAIN log :
                (log[i].op = "unlock" /\ IsImportCall(log[j])) => i < j
          /\ Imported # {} => Unlocked = Selected(disk_encryption.partitions)
    /\ t = "LuksOnLvm" =>
          /\ \A i, j \in DOMAIN log :
                (IsImportCall(log[i]) /\ log[j].op = "unlock") => i < j
          /\ Unlocked # {} => Imported = AllImports
    /\ t \in {"LvmOnLuks", "LuksOnLvm"} =>
          /\ \A i, j \in DOMAIN log :
                ((log[i].op = "unlock" \/ IsImportCall(log[i])) /\ IsMountCall(log[j]))
                => i < j
          /\ (\E n \in DOMAIN log : IsMountCall(log[n])) =>
                /\ Imported = AllImports
                /\ Unlocked = Selected(IF t = "LvmOnLuks" THEN disk_encryption.partitions
                                       ELSE disk_encryption.lvm_volumes)

\* C3 witness: an LvmOnLuks session that unlocked two partitions, imported a
\* volume group and mounted a volume and a partition.
C3_Witness ==
    /\ pc = "mounted"
    /\ disk_encryption.encryption_type = "LvmOnLuks"
    /\ Cardinality(Unlocked) >= 2
    /\ Imported # {}
    /\ \E n \in DOMAIN log : IsMountCall(log[n]) /\ log[n].el.k = "vol"
    /\ \E n \in PartMounts : TRUE

PlanReturned == pc = "returned" /\ plan.some

\* C4: every plan the encryption planner returns is normalized: a LuksOnLvm
\* plan holds no partitions, a Luks or LvmOnLuks plan holds no LVM volumes,
\* whatever was selected in the menu.
C4_PlanNormalized ==
    PlanReturned =>
        /\ plan.encryption_type = "LuksOnLvm" => plan.partitions = {}
        /\ plan.encryption_type \in {"Luks", "LvmOnLuks"} => plan.lvm_volumes = {}

Synthesized == pc = "cmdline"
Has(p) == p \in Range(cmdline.params)
RootIsVolume == GetRoot.k = "vol"
RootIsEncryptedPartition ==
    GetRoot.k = "part" /\ GetRoot \in Range(disk_encryption.partitions)
RootIsPlainPartition ==
    GetRoot.k = "part" /\ GetRoot \notin Range(disk_encryption.partitions)
HasLuksName(mapper) ==
    \E p \in Range(cmdline.params) : p.name = "rd.luks.name" /\ p.val = mapper
HasRootOnMapper ==
    \E p \in Range(cmdline.params) :
        p.name = "root" /\ p.val \in {"/dev/mapper/root", LvmDevPath}

\* C5 as stated: every synthesized command line carries the rd.luks.name and
\* root= parameters of its root element, whichever bootloader step asked for it.
C5_RootParameters ==
    Synthesized =>
        /\ (RootIsVolume /\ disk_encryption.encryption_type = "LvmOnLuks") =>
              (HasLuksName("cryptlvm") /\ HasRootOnMapper)
        /\ RootIsEncryptedPartition =>
              (Has(Param("rd.luks.name", "root", GetRoot))
               /\ Has(Param("root", "/dev/mapper/root", NoEl)))
        /\ RootIsPlainPartition => Has(Param("root", "PARTUUID", GetRoot))

\* C5 amended: the LvmOnLuks parameters are in every synthesized command line;
\* the rd.luks.name parameter of an encrypted root partition is in every one,
\* and its root=/dev/mapper/root, like the root=PARTUUID of a plain partition,
\* in every one synthesized with the defaults id_root and partuuid (all
\* bootloader steps but Grub's, which omits root=).
C5_RootParametersByCall ==
    Synthesized =>
        /\ (RootIsVolume /\ disk_encryption.encryption_type = "LvmOnLuks") =>
              (HasLuksName("cryptlvm") /\ HasRootOnMapper)
        /\ RootIsEncryptedPartition =>
              /\ Has(Param("rd.luks.name", "root", GetRoot))
              /\ cmdline.call = "default" => Has(Param("root", "/dev/mapper/root", NoEl))
              /\ cmdline.call = "grub" =>
                    ~\E p \in Range(cmdline.params) : p.name = "root"
        /\ RootIsPlainPartition =>
              /\ cmdline.call = "default" => Has(Param("root", "PARTUUID", GetRoot))
              /\ cmdline.call = "grub" =>
                    ~\E p \in Range(cmdline.params) : p.name = "root"

\* C5 witness: a command line synthesized with the defaults for an encrypted
\* root partition, after a parameter was injected and zram was set up.
C5_Witness ==
    /\ Synthesized
    /\ cmdline.call = "default"
    /\ RootIsEncryptedPartition
    /\ Has(Param("root", "/dev/mapper/root", NoEl))
    /\ zram_enabled
    /\ kernel_params # <<>>

Did(op) == { n \in DOMAIN effects : effects[n].op = op }

\* C6 as stated: when the bootloader step for rEFInd or EFISTUB ends with
\* HardwareIncompatibilityError, it has installed no package and written no
\* file.
C6_NothingBeforeHardwareError ==
    (/\ pc = "bootloader"
     /\ boot_cfg.bootloader \in {"Refind", "Efistub"}
     /\ raised = "HardwareIncompatibilityError")
        => (Did("strap") = {} /\ Did("write") = {})

KeysGenerated == pc = "keys" /\ raised = "none"
KeyfilesWritten == { effects[n].arg : n \in Did("write") }
SlotsAdded(id) == Cardinality({ n \in Did("add_key") : effects[n].el = id })
ModeOf(path) ==
    LET ch == { n \in Did("chmod") : effects[n].arg = path }
    IN IF ch = {} THEN "" ELSE effects[CHOOSE n \in ch : \A m \in ch : m <= n].mode
EncryptedRoots == { id \in Encrypted : IsRoot(id) }

\* C7 as stated: with Luks and auto_unlock_root, generate_key_files leaves
\* exactly one key file in the target, root.key with mode 000, and exactly
\* one key slot was added, to the root partition's container.
C7_OnlyRootKeyfile ==
    (KeysGenerated /\ disk_encryption.encryption_type = "Luks"
     /\ disk_encryption.auto_unlock_root) =>
        /\ KeyfilesWritten = { RootKeyPath("root") }
        /\ ModeOf(RootKeyPath("root")) = "000"
        /\ Cardinality(Did("add_key")) = 1
        /\ \A n \in Did("add_key") : IsRoot(effects[n].el)

\* C7 amended: with Luks and auto_unlock_root, when the one root partition is
\* among the encrypted partitions, generate_key_files writes root.key once,
\* with mode 000, records it in the installer's files and adds exactly one key
\* slot to the root partition's container; every other key file and key slot
\* belongs to a non-root encrypted partition for which
\* should_generate_encryption_file holds, one each.
C7_RootKeyfile ==
    (KeysGenerated /\ disk_encryption.encryption_type = "Luks"
     /\ disk_encryption.auto_unlock_root /\ Cardinality(EncryptedRoots) = 1) =>
        /\ Cardinality({ n \in Did("write") : effects[n].arg = RootKeyPath("root") }) = 1
        /\ ModeOf(RootKeyPath("root")) = "000"
        /\ Appended(effects) = { RootKeyPath("root") }
        /\ \A id \in EncryptedRoots : SlotsAdded(id) = 1
        /\ \A id \in Encrypted \ EncryptedRoots :
              /\ SlotsAdded(id) = (IF id \in key_env.policy THEN 1 ELSE 0)
              /\ KeyPath("mapper_name", id) \in KeyfilesWritten <=> id \in key_env.policy
        /\ KeyfilesWritten \subseteq
              { RootKeyPath("root") } \cup { KeyPath("mapper_name", id) : id \in Encrypted }

\* C7 witness: root and another partition encrypted, both got a key file.
C7_Witness ==
    /\ KeysGenerated
    /\ disk_encryption.encryption_type = "Luks"
    /\ disk_encryption.auto_unlock_root
    /\ Cardinality(EncryptedRoots) = 1
    /\ RootKeyPath("root") \in KeyfilesWritten
    /\ \E id \in Encrypted \ EncryptedRoots : KeyPath("mapper_name", id) \in KeyfilesWritten

\* C8 as stated: without auto_unlock_root generate_key_files writes no key
\* file and adds no key slot.
C8_NoKeyfile ==
    (pc = "keys" /\ ~disk_encryption.auto_unlock_root) =>
        (Did("write") = {} /\ Did("add_key") = {})

\* C8 amended: without auto_unlock_root generate_key_files writes no root
\* key file (root.key, cryptlvm.key) and adds no key slot to the container of
\* a root element; with LvmOnLuks it does nothing at all; the key files it
\* writes belong to non-root encrypted elements for which
\* should_generate_encryption_file holds.
C8_NoRootKeyfile ==
    (pc = "keys" /\ ~disk_encryption.auto_unlock_root) =>
        /\ KeyfilesWritten \cap { RootKeyPath("root"), RootKeyPath("cryptlvm") } = {}
        /\ Appended(effects) = {}
        /\ \A n \in Did("add_key") \cup Did("write") :
              /\ ~IsRoot(effects[n].el)
              /\ effects[n].el \in Encrypted \cap key_env.policy
              /\ effects[n].arg = KeyPath("mapper_name", effects[n].el)
        /\ disk_encryption.encryption_type = "LvmOnLuks" => effects = <<>>

\* C8 witness: the encrypted root partition went through the loop without
\* auto_unlock_root and another partition got its key file.
C8_Witness ==
    /\ KeysGenerated
    /\ ~disk_encryption.auto_unlock_root
    /\ EncryptedRoots # {}
    /\ Did("add_key") # {}

\* C9 as stated: with a /boot smaller than 200 MiB the session never gets
\* past the sanity check.
C9_SmallBootRejected ==
    VerifyBootPartRaises => pc \notin {"ntp", "reflector", "keyring_timer", "keyring",
                                       "checked", "bootloader"}

\* C10 as stated: the readiness waits end whatever the services do, so the
\* sanity check eventually returns.
C10_WaitsEnd == <>(pc \in {"checked", "bootloader"})

RescueTerminated == pc \in {"returned", "raised"}

\* C11 as stated: when rescue() terminates, on whatever path, lock() was
\* called on every container it unlocked.
C11_LockedOnEveryExit ==
    RescueTerminated => \A n \in DOMAIN unlocked_luks : unlocked_luks[n] \in lock_attempts

----------------------------------------------------------------------------
\* Properties of leaving the session

ExitedNormally == pc = "exited" /\ exit_exc = "" /\ exit_result.ret # "raised"

StepOfFlag(k) == IF k = "base" THEN "minimal_installation" ELSE "add_bootloader"

\* C12 as stated: at a normal exit the steps reported as missing are exactly
\* those of base and bootloader that did not run to their end in the session,
\* and __exit__ reports success only when none is missing.
C12_MissingStepsReported ==
    ExitedNormally =>
        /\ exit_result.reported =
              { k \in {"base", "bootloader"} : StepOfFlag(k) \notin session_completed }
        /\ (exit_result.ret = "True") <=> (exit_result.reported = {})

\* C13: when a step of the session raised, __exit__ lets the same error
\* propagate and leaves what was mounted, unlocked and written as it is.
C13_ErrorPropagates ==
    [][(pc = "session" /\ exit_exc # "" /\ pc' = "exited") =>
          /\ exit_result'.propagated = exit_exc
          /\ session_target' = session_target
          /\ session_flags' = session_flags]_vars

C13_Witness ==
    /\ pc = "exited"
    /\ exit_exc = "DiskError"
    /\ exit_result.propagated = "DiskError"
    /\ session_target.mounted
    /\ session_target.unlocked
    /\ session_target.written # {}

----------------------------------------------------------------------------
\* Properties of Pacman.run

\* C14 as stated: the command is never started while the lock file exists;
\* the process is aborted only after the 10 minutes and with the lock still
\* there when they were over; a lock that went away before the 10 minutes were over lets the
\* command run.
C14_LockWait ==
    /\ pacman_cmd = "started" => ~db_lock
    /\ pacman_cmd = "SystemExit" =>
          /\ pacman_clock > PacmanGrace * SleepsPerSecond
          /\ lock_gone_at = -1 \/ lock_gone_at >= PacmanGrace * SleepsPerSecond
    /\ (pc \in {"exit", "returned"} /\ lock_gone_at # -1
          /\ lock_gone_at < PacmanGrace * SleepsPerSecond) => pacman_cmd = "started"

----------------------------------------------------------------------------
\* Properties of the layout planner

RootSizeReturned ==
    pc = "returned" /\ suggest_args.total_size > 0 /\ suggest_result.root_size > 0

TotalGiB == suggest_args.total_size \div MiBPerGiB

\* C15: the suggested root size is 50 GiB above 500 whole GiB, 32 GiB below
\* 320, and a tenth (integer division) between, both boundaries included:
\* 600 gives 50, 200 gives 32, 400 gives 40, 320 gives 32, 500 gives 50.
C15_RootSize ==
    RootSizeReturned =>
        LET root == suggest_result.root_size IN
        /\ TotalGiB > 500 => root = 50
        /\ TotalGiB < 320 => root = 32
        /\ (TotalGiB >= 320 /\ TotalGiB <= 500) =>
              /\ 10 * root <= TotalGiB
              /\ TotalGiB < 10 * root + 10
        /\ TotalGiB = 600 => root = 50
        /\ TotalGiB = 200 => root = 32
        /\ TotalGiB = 400 => root = 40
        /\ TotalGiB = 320 => root = 32
        /\ TotalGiB = 500 => root = 50

C15_Witness ==
    /\ RootSizeReturned
    /\ suggest_args.total_size = 600 * MiBPerGiB + MiBPerGiB - 1
    /\ suggest_result.root_size = 50

BootPartitionsReturned ==
    pc = "returned" /\ suggest_args.total_size = 0 /\ suggest_result.layout = "None"
        /\ suggest_result.boot_partitions # <<>>

\* C16: on UEFI the boot partitions are one 1 GiB FAT32 ESP, at /efi with
\* subvolumes and at /boot without; on BIOS one 1 GiB /boot partition, with a
\* 1 MiB BIOS_GRUB partition before it exactly when the table is GPT and the
\* bootloader is Grub; the BIOS /boot is FAT32 for Limine and has the chosen
\* root filesystem otherwise.
C16_BootPartitions ==
    BootPartitionsReturned =>
        LET parts == suggest_result.boot_partitions
            a == suggest_args
            boot == parts[Len(parts)]
        IN IF a.uefi
           THEN /\ Len(parts) = 1
                /\ boot.length = MiBPerGiB
                /\ boot.fs_type = "fat32"
                /\ boot.flags = {"ESP"}
                /\ boot.mountpoint = IF a.using_subvolumes THEN "/efi" ELSE "/boot"
           ELSE /\ boot.length = MiBPerGiB
                /\ boot.mountpoint = "/boot"
                /\ boot.fs_type = IF a.bootloader = "Limine" THEN "fat32" ELSE a.filesystem_type
                /\ Len(parts) = IF a.partition_table = "GPT" /\ a.bootloader = "Grub" THEN 2 ELSE 1
                /\ Len(parts) = 2 =>
                      /\ parts[1].length = 1
                      /\ parts[1].flags = {"BIOS_GRUB"}
                      /\ parts[1].mountpoint = "None"
                      /\ parts[1].start + parts[1].length = boot.start

C16_Witness ==
    /\ BootPartitionsReturned
    /\ ~suggest_args.uefi
    /\ Len(suggest_result.boot_partitions) = 2
    /\ suggest_args.filesystem_type = "xfs"

\* C18 as stated: the ZFS layout asked for on a system without UEFI ends in
\* a HardwareIncompatibilityError, with no layout returned and nothing wiped.
C18_ZfsNeedsUefi ==
    (pc \in {"returned", "raised"} /\ suggest_args.device # "None" /\ ~suggest_args.uefi) =>
        /\ suggest_result.raised = "HardwareIncompatibilityError"
        /\ suggest_result.layout = "None"
        /\ ~suggest_result.wiped

----------------------------------------------------------------------------
\* Properties of the validation of the configuration

LimineOnNonFatBoot ==
    /\ menu_config.bootloader = "Limine"
    /\ menu_config.boot_fs \notin FatFilesystems

\* C17: a configuration that selects Limine with a boot partition that is not
\* FAT12, FAT16 or FAT32 is reported invalid, and the installation is not
\* started from it.
C17_LimineNeedsFatBoot ==
    (pc # "menu" /\ LimineOnNonFatBoot) =>
        /\ ~config_valid.valid
        /\ config_valid.error # "None"
        /\ ~config_valid.install

C17_Witness ==
    /\ pc = "checked"
    /\ LimineOnNonFatBoot
    /\ menu_config.boot_fs = "ext4"
    /\ menu_config.efi_fs = "fat32"
    /\ ~menu_config.missing_configs
    /\ config_valid.error = "Limine does not support booting with a non-FAT boot partition"

----------------------------------------------------------------------------
\* Properties of saving and reading back the mirror configuration

----------------------------------------------------------------------------
\* The whole mount sequence

RootMounts == { n \in DOMAIN log : log[n].op = "mount" /\ log[n].target = Root }

\* C20 as stated: over the whole sequence issued by mount_ordered_layout, LVM
\* volumes, partitions and subvolumes together, the one filesystem mounted at
\* / is mounted before every other mountpoint of the plan.
C20_RootMountedFirst ==
    (pc = "mounted" /\ Cardinality(RootMounts) = 1) =>
        \A i \in RootMounts :
            \A j \in DOMAIN log :
                (log[j].op = "mount" /\ log[j].target # Root) => i < j

----------------------------------------------------------------------------
\* The root parameters and the encrypted set

RootInEncryptedSet ==
    GetRoot \in Range(disk_encryption.partitions) \cup Range(disk_encryption.lvm_volumes)

MapperPath(mapper) == IF mapper = "root" THEN "/dev/mapper/root" ELSE "/dev/mapper/cryptlvm"

LuksNameWithMapperRoot ==
    \E p, r \in Range(cmdline.params) :
        p.name = "rd.luks.name" /\ r.name = "root" /\ r.val = MapperPath(p.val)

\* C21 as stated: the command line carries rd.luks.name=<uuid>=<mapper> with
\* root=/dev/mapper/<mapper> exactly when the root element is in the encrypted
\* set of the plan; otherwise root is given by PARTUUID or UUID, there is no
\* rd.luks.name, and no LUKS UUID is looked up (so no lookup can fail).
C21_LuksNameIffRootEncrypted ==
    /\ Synthesized =>
          /\ LuksNameWithMapperRoot <=> RootInEncryptedSet
          /\ ~RootInEncryptedSet =>
                /\ \E r \in Range(cmdline.params) :
                      r.name = "root" /\ r.val \in {"PARTUUID", "UUID"}
                /\ ~\E p \in Range(cmdline.params) : p.name = "rd.luks.name"
    /\ (pc = "raised" /\ cmdline.raised) => RootInEncryptedSet

----------------------------------------------------------------------------
\* Properties of loader.conf

\* the lines that are neither a default line nor a timeout line, in order
Unrelated(lines) ==
    LET keep(l) == l.start \notin {"default", "#timeout", "timeout"}
    IN SelectSeq(lines, keep)

\* C22 as stated: after the step loader.conf has a default line naming the
\* entry of the first kernel and an uncommented timeout line, and the other
\* lines of a loader.conf found before are kept unchanged and in order.
C22_LoaderConf ==
    pc = "loader.conf written" =>
        /\ \E n \in DOMAIN loader_conf :
              loader_conf[n] =
                 Line("default", DefaultEntry(loader_args.kernels, loader_args.uki_enabled))
        /\ \E n \in DOMAIN loader_conf : loader_conf[n].start = "timeout"
        /\ Unrelated(loader_conf) = Unrelated(loader_args.lines)


\* the names of the subvolumes of the root element that are mounted at /
RootSubvolNames ==
    LET subvols == RootElem(GetRoot).btrfs_subvols
    IN { subvols[n].name : n \in { m \in DOMAIN subvols : SubvolIsRoot(subvols[m]) } }

HasRootFlags(name) ==
    \E p \in Range(cmdline.params) : p.name = "rootflags" /\ p.val = name

GrubInstalls ==
    { n \in DOMAIN effects : effects[n].op = "run" /\
         effects[n].arg \in {"grub-install --efi-directory", "grub-install --target=i386-pc"} }
GrubMkconfigs == { n \in DOMAIN effects : effects[n] = Step("run", "grub-mkconfig") }
GrubDefaultEdits == { n \in DOMAIN effects : effects[n] = Step("write", "etc/default/grub") }
Succeeded(n) == n < Len(effects) /\ effects[n + 1].op # "raise"

\* C24: in Grub's step, with an encryption type other than NoEncryption the
\* defaults file is edited (cryptodisk enabled) before grub-install runs;
\* grub.cfg is generated only after grub-install has succeeded and after the
\* last edit of the defaults file; the bootloader flag is set only after
\* grub-mkconfig has succeeded.
C24_GrubOrder ==
    (pc = "bootloader" /\ boot_cfg.bootloader = "Grub") =>
        /\ boot_env.encrypted =>
              \A n \in GrubInstalls : \E m \in GrubDefaultEdits : m < n
        /\ \A n \in GrubMkconfigs :
              /\ \E m \in GrubInstalls : m < n /\ Succeeded(m)
              /\ \A m \in GrubDefaultEdits : m < n
        /\ helper_flags = "grub" =>
              \E n \in GrubMkconfigs :
                  /\ Succeeded(n)
                  /\ \A m \in DOMAIN effects : effects[m].op = "flag" => n < m
        /\ helper_flags # "None" => helper_flags = "grub"

C24_Witness ==
    /\ pc = "bootloader"
    /\ boot_cfg.bootloader = "Grub"
    /\ boot_env.encrypted
    /\ helper_flags = "grub"
    /\ \E n \in GrubMkconfigs : \E m \in GrubDefaultEdits : \E k \in GrubDefaultEdits :
          \E i \in GrubInstalls : m < i /\ i < k /\ k < n

----------------------------------------------------------------------------
\* Properties of the guided installation

CallsOf(method) == { n \in DOMAIN guided_done : guided_done[n] = method }
CalledBefore(first, second) ==
    \A n \in CallsOf(second) : \E m \in CallsOf(first) : m < n

\* C25: in the guided installation key files are generated only after
\* mount_ordered_layout and before the base installation, the bootloader is
\* added only after the base installation and the application setup, so
\* every initramfs generated has the root keyfile in FILES and the command
\* line the bootloader writes has every parameter application setup added.
C25_GuidedOrder ==
    /\ CalledBefore("mount_ordered_layout", "generate_key_files")
    /\ \A n \in CallsOf("generate_key_files") : \A m \in CallsOf("minimal_installation") : n < m
    /\ CalledBefore("minimal_installation", "add_bootloader")
    /\ \A n \in CallsOf("add_bootloader") : \A m \in CallsOf("install_applications") : m < n
    /\ (pc = "installed" /\ guided_cfg.app_config /\ CallsOf("add_bootloader") # {}) =>
          CallsOf("install_applications") # {}
    /\ \A n \in DOMAIN initramfs : Range(guided_files) \subseteq Range(initramfs[n])
    /\ (pc = "installed" /\ guided_cfg.root_keyfile /\ ~guided_cfg.pre_mount) =>
          \A n \in DOMAIN initramfs : RootKeyfile \in Range(initramfs[n])
    /\ boot_cmdline.written =>
          Range(guided_kernel_params) \subseteq Range(boot_cmdline.params)
    /\ (pc = "installed" /\ guided_cfg.apparmor /\ boot_cmdline.written) =>
          Range(ApparmorKernelParams) \subseteq Range(boot_cmdline.params)

C25_Witness ==
    /\ pc = "installed"
    /\ guided_done = GuidedOrder
    /\ Len(initramfs) = 1
    /\ RootKeyfile \in Range(initramfs[1])
    /\ boot_cmdline.written
    /\ boot_cmdline.params = ApparmorKernelParams

----------------------------------------------------------------------------
\* Properties of the LVM layout of the planner

LvmReturned == pc = "returned" /\ suggest_result.layout = "lvm"

\* C26 as stated: every logical volume suggest_lvm_layout returns has a
\* positive length, and the lengths of root and home together never exceed
\* the combined capacity of the physical volumes, whatever that capacity is.
C26_LvmLengths ==
    LvmReturned =>
        /\ \A n \in DOMAIN suggest_result.volumes : suggest_result.volumes[n].length > 0
        /\ SumLength(suggest_result.volumes) <= SumLength(suggest_result.pvs)

\* C29 as stated: no partition that serves booting (/boot, the ESP, the
\* 1 MiB BIOS_GRUB partition) is a physical volume of the layout
\* suggest_lvm_layout returns.
C29_NoBootPv ==
    LvmReturned =>
        \A n \in DOMAIN suggest_result.pvs :
            /\ suggest_result.pvs[n].flags \cap {"BOOT", "ESP", "BIOS_GRUB"} = {}
            /\ suggest_result.pvs[n].mountpoint \notin {"/boot", "/efi"}

----------------------------------------------------------------------------
\* Properties of the initramfs hooks

Before(first, second) ==
    /\ first \in Range(hooks)
    /\ second \in Range(hooks)
    /\ Index(hooks, first) < Index(hooks, second)

\* C27 as stated: after minimal_installation has prepared the hooks for an
\* LVM layout, block comes before lvm2 and lvm2 before filesystems; with
\* LvmOnLuks or LuksOnLvm the list also holds sd-encrypt exactly once, after
\* block and before lvm2.
C27_HookOrder ==
    (pc = "hooks prepared" /\ hooks_plan.lvm_config) =>
        /\ Before("block", "lvm2")
        /\ Before("lvm2", "filesystems")
        /\ hooks_plan.encryption_type \in {"LvmOnLuks", "LuksOnLvm"} =>
              /\ Cardinality({ n \in DOMAIN hooks : hooks[n] = "sd-encrypt" }) = 1
              /\ Before("block", "sd-encrypt")
              /\ Before("sd-encrypt", "lvm2")

----------------------------------------------------------------------------
\* Properties of the two ways to mount a partition

\* what is mounted where (or activated as swap) for an element from a source
Produced(id, via) ==
    { <<log[n].op, log[n].target>> : n \in { m \in DOMAIN log : log[m].el = id /\ log[m].src = via } }

\* C28 as stated: for every partition the targets mounted (and the swap
\* activated) from the mapper of its unlocked container are those mounted
\* from the partition itself, also for a BTRFS partition that has both a
\* mountpoint and subvolumes.
C28_SameTargets ==
    pc = "mounted both ways" =>
        \A id \in PartIds(device_modifications) : Produced(id, "mapper") = Produced(id, "dev")

----------------------------------------------------------------------------
\* Properties of the AUR installation

AurLeft == pc \in {"returned", "raised"}

====
